---- MODULE Spec2Model ----
(***************************************************************************)
(* A model of the compiler pipeline of ajalt/eece6083-compiler: scanner,   *)
(* parser, type checker and constant folder.  Each phase is a state        *)
(* machine of its own (SpecScan, SpecParse, ...); the phases share the     *)
(* token and AST vocabulary.  Python exceptions that escape a phase are    *)
(* recorded by name in that phase's status variable.                       *)
(***************************************************************************)
EXTENDS Integers, Sequences, FiniteSets, TLC

VARIABLES
    phase,      \* which phase this behaviour runs
    impl,       \* scanner: "ececompiler" (ececompiler/scanner.py) or "src" (src/scanner.py)
    line,       \* scanner: the input line, a sequence of one-character strings
    pos,        \* scanner: the column cursor (0-based, as in the code)
    out,        \* scanner: the tokens yielded so far
    status,     \* scanner: "scanning", "done", or the name of the escaped exception
    input,      \* parser / checker / folder: the input of the phase
    result      \* parser / checker / folder: the outcome of the phase

vars == <<phase, impl, line, pos, out, status, input, result>>

scanVars == <<impl, line, pos, out, status>>
runVars == <<input, result>>

(***************************************************************************)
(* Bounds of the model.                                                    *)
(***************************************************************************)
MaxLineLen == 3

\* The characters input lines are drawn from: one letter, one digit, the
\* characters the scanner treats specially, and one character it rejects.
ScanAlphabet ==
    {"a", "1", " ", "/", ";", "{", "}", "[", ":", "=", "!", "<", "&", "\"", "#", "_"}

RECURSIVE SeqsUpTo(_, _)
SeqsUpTo(S, n) ==
    IF n = 0 THEN {<<>>}
    ELSE LET shorter == SeqsUpTo(S, n - 1)
         IN  shorter \cup {Append(s, c) : s \in {t \in shorter : Len(t) = n - 1}, c \in S}

(***************************************************************************)
(* Scanner.                                                                *)
(***************************************************************************)
Letters ==
    {"a","b","c","d","e","f","g","h","i","j","k","l","m","n","o","p","q","r","s",
     "t","u","v","w","x","y","z","A","B","C","D","E","F","G","H","I","J","K","L",
     "M","N","O","P","Q","R","S","T","U","V","W","X","Y","Z"}
Digits == {"0","1","2","3","4","5","6","7","8","9"}

isspace(c) == c = " "
isalpha(c) == c \in Letters
isdigit(c) == c \in Digits
isalnum(c) == isalpha(c) \/ isdigit(c)

legal_string_characters == Letters \cup Digits \cup {" ", "_", ",", ";", ":", ".", "'"}

\* token_map of ececompiler/scanner.py: lexeme -> token kind
token_map ==
    [k \in {";", ",", "+", "-", "*", "/", "(", ")", "<", "<=", ">", ">=", "!=", "==",
            ":=", "[", "]", "&", "|", "string", "int", "bool", "float", "global",
            "in", "out", "if", "then", "else", "for", "not", "program", "procedure",
            "begin", "return", "end", "true", "false", "is"} |->
        CASE k = ";" -> "SEMICOLON" [] k = "," -> "COMMA" [] k = "+" -> "PLUS"
          [] k = "-" -> "MINUS" [] k = "*" -> "MULTIPLY" [] k = "/" -> "DIVIDE"
          [] k = "(" -> "OPENPAREN" [] k = ")" -> "CLOSEPAREN" [] k = "<" -> "LT"
          [] k = "<=" -> "LTE" [] k = ">" -> "GT" [] k = ">=" -> "GTE"
          [] k = "!=" -> "NOTEQUAL" [] k = "==" -> "EQUAL" [] k = ":=" -> "ASSIGN"
          [] k = "[" -> "OPENBRACKET" [] k = "]" -> "CLOSEBRACKET"
          [] k = "&" -> "AND" [] k = "|" -> "OR" [] k = "string" -> "STRING_TYPE"
          [] k = "int" -> "INT" [] k = "bool" -> "BOOL" [] k = "float" -> "FLOAT"
          [] k = "global" -> "GLOBAL" [] k = "in" -> "IN" [] k = "out" -> "OUT"
          [] k = "if" -> "IF" [] k = "then" -> "THEN" [] k = "else" -> "ELSE"
          [] k = "for" -> "FOR" [] k = "not" -> "NOT" [] k = "program" -> "PROGRAM"
          [] k = "procedure" -> "PROCEDURE" [] k = "begin" -> "BEGIN"
          [] k = "return" -> "RETURN" [] k = "end" -> "END" [] k = "true" -> "TRUE"
          [] k = "false" -> "FALSE" [] k = "is" -> "IS"]

\* token_map of src/src/scanner.py
src_token_map ==
    [k \in {":", ";", ",", "+", "-", "*", "/", "(", ")", "<", "<=", ">", ">=", "!=",
            "=", ":=", "{", "}", "string", "int", "bool", "float", "global", "in",
            "out", "if", "then", "else", "case", "for", "and", "or", "not", "program",
            "procedure", "begin", "return", "end", "true", "false"} |->
        CASE k = ":" -> "COLON" [] k = ";" -> "SEMICOLON" [] k = "," -> "COMMA"
          [] k = "+" -> "PLUS" [] k = "-" -> "MINUS" [] k = "*" -> "MULTIPLY"
          [] k = "/" -> "DIVIDE" [] k = "(" -> "OPENPAREN" [] k = ")" -> "CLOSEPAREN"
          [] k = "<" -> "LT" [] k = "<=" -> "LTE" [] k = ">" -> "GT" [] k = ">=" -> "GTE"
          [] k = "!=" -> "NOTEQUAL" [] k = "=" -> "EQUAL" [] k = ":=" -> "ASSIGN"
          [] k = "{" -> "OPENBRACE" [] k = "}" -> "CLOSEBRACE"
          [] k = "string" -> "STRING_KEYWORD" [] k = "int" -> "INT" [] k = "bool" -> "BOOL"
          [] k = "float" -> "FLOAT" [] k = "global" -> "GLOBAL" [] k = "in" -> "IN"
          [] k = "out" -> "OUT" [] k = "if" -> "IF" [] k = "then" -> "THEN"
          [] k = "else" -> "ELSE" [] k = "case" -> "CASE" [] k = "for" -> "FOR"
          [] k = "and" -> "AND" [] k = "or" -> "OR" [] k = "not" -> "NOT"
          [] k = "program" -> "PROGRAM" [] k = "procedure" -> "PROCEDURE"
          [] k = "begin" -> "BEGIN" [] k = "return" -> "RETURN" [] k = "end" -> "END"
          [] k = "true" -> "TRUE" [] k = "false" -> "FALSE"]

\* line[a:b] of Python (0-based, end exclusive, clipped to the line) as a string
RECURSIVE Slice(_, _, _)
Slice(l, a, b) ==
    IF a >= b \/ a >= Len(l) THEN "" ELSE l[a + 1] \o Slice(l, a + 1, b)

\* str.replace('_', '') on line[a:b]
RECURSIVE SliceNoUnderscore(_, _, _)
SliceNoUnderscore(l, a, b) ==
    IF a >= b \/ a >= Len(l) THEN ""
    ELSE (IF l[a + 1] = "_" THEN "" ELSE l[a + 1]) \o SliceNoUnderscore(l, a + 1, b)

\* the index of the first character at or after p that fails the test and is not '_'
RECURSIVE _advance_pos(_, _, _)
_advance_pos(l, p, digitsOnly) ==
    IF p < Len(l) /\ (l[p + 1] = "_" \/ (IF digitsOnly THEN isdigit(l[p + 1]) ELSE isalnum(l[p + 1])))
    THEN _advance_pos(l, p + 1, digitsOnly)
    ELSE p

\* line.find('"', p): the index of the first '"' at or after p, or -1
RECURSIVE find_quote(_, _)
find_quote(l, p) ==
    IF p >= Len(l) THEN -1
    ELSE IF l[p + 1] = "\"" THEN p
    ELSE find_quote(l, p + 1)

Token(type, token, start, end) == [type |-> type, token |-> token, start |-> start, end |-> end]

\* One outcome of one iteration of the scanning loop: the tokens it yields, the
\* cursor after it, and how the generator goes on.
Step(toks, p, st) == [toks |-> toks, pos |-> p, status |-> st]

IllegalCharacter(c) == "Illegal character '" \o c \o "' encountered"

\* the identifier, number and string branches, shared by both scanners up to
\* the keyword table and the underscore stripping
ScanWord(l, p, map) ==
    LET e == _advance_pos(l, p, FALSE)
        lexeme == Slice(l, p, e)
        type == IF lexeme \in DOMAIN map THEN map[lexeme] ELSE "IDENTIFIER"
    IN  Step(<<Token(type, lexeme, p, e - 1)>>, e, "scanning")

ScanNumber(l, p, strip) ==
    LET e1 == _advance_pos(l, p, TRUE)
        e == IF e1 < Len(l) /\ l[e1 + 1] = "." THEN _advance_pos(l, e1 + 1, TRUE) ELSE e1
        lexeme == IF strip THEN SliceNoUnderscore(l, p, e) ELSE Slice(l, p, e)
    IN  Step(<<Token("NUMBER", lexeme, p, e - 1)>>, e, "scanning")

ScanString(l, p) ==
    LET q == find_quote(l, p + 1)
    IN  IF q = -1
        THEN Step(<<Token("ERROR", "EOL while scanning string literal", p, Len(l) - 1)>>, p, "done")
        ELSE IF \E i \in (p + 1)..(q - 1) : l[i + 1] \notin legal_string_characters
        THEN Step(<<Token("ERROR", "Illegal characters found in string", p, q)>>, q + 1, "scanning")
        ELSE Step(<<Token("STRING", Slice(l, p, q + 1), p, q)>>, q + 1, "scanning")

\* ececompiler/scanner.py, _tokenize_line: one iteration of `while pos < length`
_tokenize_line_step(l, p) ==
    LET c == l[p + 1]
        two == Slice(l, p, p + 2)
    IN  IF two = "//" THEN Step(<<>>, p, "done")
        ELSE IF isspace(c) THEN Step(<<>>, p + 1, "scanning")
        ELSE IF c \in {";", ",", "+", "-", "*", "/", "(", ")", "{", "}", "[", "]", "&", "|"}
        THEN IF c \in DOMAIN token_map
             THEN Step(<<Token(token_map[c], c, p, p)>>, p + 1, "scanning")
             ELSE Step(<<>>, p, "KeyError")
        ELSE IF c \in {"<", ">", "!", "=", ":"}
        THEN IF two \in DOMAIN token_map
             THEN Step(<<Token(token_map[two], two, p, p + Len(two) - 1)>>, p + 2, "scanning")
             ELSE IF c \in {"<", ">"}
             THEN Step(<<Token(token_map[c], c, p, p)>>, p + 1, "scanning")
             ELSE Step(<<Token("ERROR", IllegalCharacter(c), p, p)>>, p + 1, "scanning")
        ELSE IF isalpha(c) THEN ScanWord(l, p, token_map)
        ELSE IF isdigit(c) THEN ScanNumber(l, p, TRUE)
        ELSE IF c = "\"" THEN ScanString(l, p)
        ELSE Step(<<Token("ERROR", IllegalCharacter(c), p, p)>>, p + 1, "scanning")

\* src/src/scanner.py, tokenize_line: one iteration of `while pos < length`
tokenize_line_step(l, p) ==
    LET c == l[p + 1]
        two == Slice(l, p, p + 2)
        errorpos == IF p = Len(l) - 1 THEN p ELSE p + 1
    IN  IF two = "//" THEN Step(<<>>, p, "done")
        ELSE IF isspace(c) THEN Step(<<>>, p + 1, "scanning")
        ELSE IF c \in {";", ",", "+", "-", "*", "/", "(", ")", "=", "{", "}"}
        THEN IF c \in DOMAIN src_token_map
             THEN Step(<<Token(src_token_map[c], c, p, p)>>, p + 1, "scanning")
             ELSE Step(<<>>, p, "KeyError")
        ELSE IF c \in {"<", ">", ":"}
        THEN IF two \in DOMAIN src_token_map
             THEN Step(<<Token(src_token_map[two], two, p, p + Len(two) - 1)>>, p + 2, "scanning")
             ELSE IF c \in DOMAIN src_token_map
             THEN Step(<<Token(src_token_map[c], c, p, p)>>, p + 1, "scanning")
             ELSE Step(<<>>, p, "KeyError")
        ELSE IF c = "!"
        THEN IF two = "!="
             THEN Step(<<Token("NOTEQUAL", "!=", p, p + 1)>>, p + 2, "scanning")
             ELSE Step(<<Token("ERROR", IllegalCharacter(l[errorpos + 1]), errorpos, errorpos)>>,
                       p + 1, "scanning")
        ELSE IF isalpha(c) THEN ScanWord(l, p, src_token_map)
        ELSE IF isdigit(c) THEN ScanNumber(l, p, FALSE)
        ELSE IF c = "\"" THEN ScanString(l, p)
        ELSE Step(<<Token("ERROR", IllegalCharacter(c), p, p)>>, p + 1, "scanning")

InitScan ==
    /\ phase = "scan"
    /\ impl \in {"ececompiler", "src"}
    /\ line \in SeqsUpTo(ScanAlphabet, MaxLineLen)
    /\ pos = 0
    /\ out = <<>>
    /\ status = "scanning"
    /\ input = <<>>
    /\ result = <<>>

ApplyStep(s) ==
    /\ out' = out \o s.toks
    /\ pos' = s.pos
    /\ status' = s.status
    /\ UNCHANGED <<phase, impl, line, input, result>>

\* one iteration of the loop of ececompiler's _tokenize_line
TokenizeLineStepEce ==
    /\ phase = "scan" /\ impl = "ececompiler"
    /\ status = "scanning" /\ pos < Len(line)
    /\ ApplyStep(_tokenize_line_step(line, pos))

\* one iteration of the loop of src/src's tokenize_line
TokenizeLineStepSrc ==
    /\ phase = "scan" /\ impl = "src"
    /\ status = "scanning" /\ pos < Len(line)
    /\ ApplyStep(tokenize_line_step(line, pos))

\* the loop condition fails: the generator is exhausted
TokenizeLineEnd ==
    /\ phase = "scan"
    /\ status = "scanning" /\ pos >= Len(line)
    /\ status' = "done"
    /\ UNCHANGED <<phase, impl, line, pos, out, input, result>>

NextScan == TokenizeLineStepEce \/ TokenizeLineStepSrc \/ TokenizeLineEnd

SpecScan == InitScan /\ [][NextScan]_vars

\* C1: the scanner never raises: tokenizing any line ends without an
\* exception escaping, every lexical problem being an ERROR token.
C1_ScannerNeverRaises == phase = "scan" => status \in {"scanning", "done"}

(***************************************************************************)
(* AST (src/src/syntaxtree.py).  A node is a record with its class name in *)
(* `kind`; lexemes and identifiers are sequences of one-character strings. *)
(* Expression nodes carry the node_type attribute the checker attaches     *)
(* ("none" until then).                                                    *)
(***************************************************************************)
Num(n) == [kind |-> "Num", n |-> n, node_type |-> "none"]
Str(s) == [kind |-> "Str", s |-> s, node_type |-> "none"]
Name(id) == [kind |-> "Name", id |-> id, node_type |-> "none"]
Subscript(name, index) == [kind |-> "Subscript", name |-> name, index |-> index, node_type |-> "none"]
BinaryOp(op, left, right) ==
    [kind |-> "BinaryOp", op |-> op, left |-> left, right |-> right, node_type |-> "none"]
UnaryOp(op, operand) == [kind |-> "UnaryOp", op |-> op, operand |-> operand, node_type |-> "none"]

Assign(target, value) == [kind |-> "Assign", target |-> target, value |-> value]
If(test, body, orelse) == [kind |-> "If", test |-> test, body |-> body, orelse |-> orelse]
For(assignment, test, body) == [kind |-> "For", assignment |-> assignment, test |-> test, body |-> body]
Call(func, args) == [kind |-> "Call", func |-> func, args |-> args]
\* the parser puts the token kind RETURN itself in a body, not a Node
Return == [kind |-> "RETURN"]

VarDecl(is_global, type, name, array_length) ==
    [kind |-> "VarDecl", is_global |-> is_global, type |-> type, name |-> name,
     array_length |-> array_length]
ProcDecl(is_global, name, params, decls, body) ==
    [kind |-> "ProcDecl", is_global |-> is_global, name |-> name, params |-> params,
     decls |-> decls, body |-> body]
Param(var_decl, direction) == [kind |-> "Param", var_decl |-> var_decl, direction |-> direction]
Program(name, decls, body) == [kind |-> "Program", name |-> name, decls |-> decls, body |-> body]
\* Python's None where a node may be absent (VarDecl.array_length)
None == [kind |-> "None"]

(***************************************************************************)
(* Constant folding (src/src/optimizer.py, ConstantFolder).  The folder    *)
(* hands '<left> <op> <right>' to Python's eval; PyValue and the Py*       *)
(* operators are Python 2's evaluation of such a text.                     *)
(***************************************************************************)
MaxLit == 3

DigitValue(c) ==
    CASE c = "0" -> 0 [] c = "1" -> 1 [] c = "2" -> 2 [] c = "3" -> 3 [] c = "4" -> 4
      [] c = "5" -> 5 [] c = "6" -> 6 [] c = "7" -> 7 [] c = "8" -> 8 [] c = "9" -> 9
DigitChar(d) == <<"0", "1", "2", "3", "4", "5", "6", "7", "8", "9">>[d + 1]

\* str(i) of a Python int
RECURSIVE NatToStr(_)
NatToStr(i) == IF i < 10 THEN <<DigitChar(i)>> ELSE Append(NatToStr(i \div 10), DigitChar(i % 10))
IntToStr(i) == IF i < 0 THEN <<"-">> \o NatToStr(-i) ELSE NatToStr(i)

IsDigits(s) == Len(s) > 0 /\ \A i \in 1..Len(s) : s[i] \in Digits
\* a decimal integer literal, with an optional sign
IsIntLexeme(s) == IsDigits(s) \/ (Len(s) > 1 /\ s[1] = "-" /\ IsDigits(Tail(s)))

RECURSIVE DigitsToNat(_)
DigitsToNat(s) == IF s = <<>> THEN 0 ELSE 10 * DigitsToNat(SubSeq(s, 1, Len(s) - 1)) + DigitValue(s[Len(s)])

PyTrue == <<"T", "r", "u", "e">>
PyFalse == <<"F", "a", "l", "s", "e">>

\* a Python value: an int, or a bool (which Python computes with as 1 or 0)
PyValue(isBool, v) == [bool |-> isBool, v |-> v, exc |-> "none"]
PyRaise(exc) == [bool |-> FALSE, v |-> 0, exc |-> exc]
PyBool(b) == PyValue(TRUE, IF b THEN 1 ELSE 0)

\* eval of one operand text: an integer literal, or True / False (what str() of
\* a folded `not` leaves in a Num)
PyLiteral(s) ==
    IF s = PyTrue THEN PyBool(TRUE)
    ELSE IF s = PyFalse THEN PyBool(FALSE)
    ELSE IF s[1] = "-" THEN PyValue(FALSE, 0 - DigitsToNat(Tail(s)))
    ELSE PyValue(FALSE, DigitsToNat(s))

\* Python's & and | on ints of any sign (two's complement of unbounded width)
RECURSIVE PyBitAnd(_, _)
PyBitAnd(a, b) ==
    IF a = 0 \/ b = 0 THEN 0
    ELSE IF a = -1 THEN b
    ELSE IF b = -1 THEN a
    ELSE (a % 2) * (b % 2) + 2 * PyBitAnd(a \div 2, b \div 2)

RECURSIVE PyBitOr(_, _)
PyBitOr(a, b) ==
    IF a = 0 THEN b
    ELSE IF b = 0 THEN a
    ELSE IF a = -1 \/ b = -1 THEN -1
    ELSE (IF a % 2 = 1 \/ b % 2 = 1 THEN 1 ELSE 0) + 2 * PyBitOr(a \div 2, b \div 2)

BinaryOperators == {"+", "-", "*", "/", "&", "|", "<", "<=", ">", ">=", "==", "!="}
UnaryOperators == {"-", "not"}

\* eval('%s %s %s' % (left, op, right)); int / int is Python 2's floor division
PyBinary(op, a, b) ==
    CASE op = "+" -> PyValue(FALSE, a.v + b.v)
      [] op = "-" -> PyValue(FALSE, a.v - b.v)
      [] op = "*" -> PyValue(FALSE, a.v * b.v)
      [] op = "/" -> IF b.v = 0 THEN PyRaise("ZeroDivisionError") ELSE PyValue(FALSE, a.v \div b.v)
      [] op = "&" -> PyValue(a.bool /\ b.bool, PyBitAnd(a.v, b.v))
      [] op = "|" -> PyValue(a.bool /\ b.bool, PyBitOr(a.v, b.v))
      [] op = "<" -> PyBool(a.v < b.v)
      [] op = "<=" -> PyBool(a.v <= b.v)
      [] op = ">" -> PyBool(a.v > b.v)
      [] op = ">=" -> PyBool(a.v >= b.v)
      [] op = "==" -> PyBool(a.v = b.v)
      [] op = "!=" -> PyBool(a.v # b.v)

\* eval('%s %s' % (op, operand))
PyUnary(op, a) ==
    CASE op = "-" -> PyValue(FALSE, 0 - a.v)
      [] op = "not" -> PyBool(a.v = 0)

\* str(value)
PyStr(val) == IF val.bool THEN (IF val.v = 1 THEN PyTrue ELSE PyFalse) ELSE IntToStr(val.v)

\* the outcome of visiting a node: the node that replaces it, the mutator's
\* modified_tree flag, and the exception that escaped ("none" if none did)
Visited(node, modified, exc) == [node |-> node, modified |-> modified, exc |-> exc]

\* get_const's None (no lexeme is empty)
NoConst == <<>>
get_const(node) == IF node.kind = "Num" THEN node.n ELSE NoConst

\* visit_binary_op after its children were visited
FoldBinaryOp(node) ==
    LET left == get_const(node.left)
        right == get_const(node.right)
    IN  IF left # NoConst /\ right # NoConst
        THEN LET val == PyBinary(node.op, PyLiteral(left), PyLiteral(right))
             IN  IF val.exc # "none" THEN Visited(node, FALSE, val.exc)
                 ELSE IF val.bool /\ val.v = 1 THEN Visited(Num(<<"1">>), FALSE, "none")
                 ELSE IF val.bool /\ val.v = 0 THEN Visited(Num(<<"0">>), FALSE, "none")
                 ELSE Visited(Num(PyStr(val)), FALSE, "none")
        ELSE Visited(node, FALSE, "none")

\* visit_unary_op after its child was visited
FoldUnaryOp(node) ==
    LET operand == get_const(node.operand)
    IN  IF operand # NoConst
        THEN Visited(Num(PyStr(PyUnary(node.op, PyLiteral(operand)))), FALSE, "none")
        ELSE Visited(node, FALSE, "none")

\* ConstantFolder: TreeMutator._visit on an expression node.  visit_children
\* replaces each child by what its visit returns and sets modified_tree when
\* the two differ; the node's own replacement is its parent's to notice.
RECURSIVE fold_visit(_)
fold_visit(node) ==
    CASE node.kind = "BinaryOp" ->
            LET l == fold_visit(node.left)
                r == fold_visit(node.right)
                n1 == [node EXCEPT !.left = l.node]
                n2 == [n1 EXCEPT !.right = r.node]
                m1 == l.modified \/ l.node # node.left
                m2 == m1 \/ r.modified \/ r.node # node.right
            IN  IF l.exc # "none" THEN Visited(node, l.modified, l.exc)
                ELSE IF r.exc # "none" THEN Visited(n1, m1 \/ r.modified, r.exc)
                ELSE LET f == FoldBinaryOp(n2) IN Visited(f.node, m2, f.exc)
      [] node.kind = "UnaryOp" ->
            LET o == fold_visit(node.operand)
                n1 == [node EXCEPT !.operand = o.node]
                m1 == o.modified \/ o.node # node.operand
            IN  IF o.exc # "none" THEN Visited(node, o.modified, o.exc)
                ELSE LET f == FoldUnaryOp(n1) IN Visited(f.node, m1, f.exc)
      [] OTHER -> Visited(node, FALSE, "none")

\* The expressions the folder is run on: integer literals 0..MaxLit under at
\* most two levels of operators (a negative operand is a folded unary minus).
FoldLeaves(n) == {Num(IntToStr(i)) : i \in 0..n}
FoldOps(inner, leaves) ==
    {UnaryOp(op, e) : op \in UnaryOperators, e \in inner}
        \cup {BinaryOp(op, e, l) : op \in BinaryOperators, e \in inner, l \in leaves}
        \cup {BinaryOp(op, l, e) : op \in BinaryOperators, e \in inner, l \in leaves}
FoldLevel1(n) == FoldLeaves(n) \cup FoldOps(FoldLeaves(n), FoldLeaves(n))
FoldInputs(n) == FoldLevel1(n) \cup FoldOps(FoldLevel1(n), FoldLeaves(n))

ScanIdle ==
    /\ impl = "none" /\ line = <<>> /\ pos = 0 /\ out = <<>> /\ status = "idle"

InitFold ==
    /\ phase = "fold"
    /\ ScanIdle
    /\ input \in FoldInputs(MaxLit)
    /\ result = None

\* optimizer.ConstantFolder().walk(ast)
ConstantFolderWalk ==
    /\ phase = "fold" /\ result = None
    /\ result' = fold_visit(input)
    /\ UNCHANGED <<phase, input>>
    /\ UNCHANGED scanVars

NextFold == ConstantFolderWalk

SpecFold == InitFold /\ [][NextFold]_vars

\* What the generated C computes for the unfolded expression on 32-bit ints
\* (codegenerator: '<out> = <left> <op> <right>;', `not` on an int is `~`).
\* The model's values stay far inside 32 bits, where no operation wraps.
CTruncDiv(a, b) ==
    IF (a < 0) = (b < 0) THEN (IF a < 0 THEN (0 - a) \div (0 - b) ELSE a \div b)
    ELSE 0 - ((IF a < 0 THEN 0 - a ELSE a) \div (IF b < 0 THEN 0 - b ELSE b))

\* C leaves the value of the expression undefined: it divides by zero
RECURSIVE CEval(_)
RECURSIVE CUndefined(_)
CUndefined(node) ==
    CASE node.kind = "UnaryOp" -> CUndefined(node.operand)
      [] node.kind = "BinaryOp" ->
            \/ CUndefined(node.left)
            \/ CUndefined(node.right)
            \/ (node.op = "/" /\ CEval(node.right) = 0)
      [] OTHER -> FALSE

CEval(node) ==
    CASE node.kind = "Num" -> DigitsToNat(node.n)
      [] node.kind = "UnaryOp" ->
            LET a == CEval(node.operand)
            IN  IF node.op = "-" THEN 0 - a ELSE (0 - a) - 1
      [] node.kind = "BinaryOp" ->
            LET a == CEval(node.left)
                b == CEval(node.right)
                op == node.op
            IN  CASE op = "+" -> a + b [] op = "-" -> a - b [] op = "*" -> a * b
                  [] op = "/" -> IF b = 0 THEN 0 ELSE CTruncDiv(a, b)
                  [] op = "&" -> PyBitAnd(a, b) [] op = "|" -> PyBitOr(a, b)
                  [] op = "<" -> IF a < b THEN 1 ELSE 0
                  [] op = "<=" -> IF a <= b THEN 1 ELSE 0
                  [] op = ">" -> IF a > b THEN 1 ELSE 0
                  [] op = ">=" -> IF a >= b THEN 1 ELSE 0
                  [] op = "==" -> IF a = b THEN 1 ELSE 0
                  [] op = "!=" -> IF a # b THEN 1 ELSE 0

FoldDone == phase = "fold" /\ result # None

\* C10: level-1 folding preserves the value: whenever the folder returns for an
\* expression over integer literals whose value C defines, the result is a Num
\* whose lexeme is an integer literal denoting the value the generated C
\* computes for the unfolded expression.
C10_FoldPreservesValue ==
    (FoldDone /\ ~CUndefined(input) /\ result.exc = "none") =>
        /\ result.node.kind = "Num"
        /\ IsIntLexeme(result.node.n)
        /\ PyLiteral(result.node.n).v = CEval(input)

(***************************************************************************)
(* Type checker (src/ececompiler/typechecker.py, Checker).                 *)
(***************************************************************************)
INT == "INT"
FLOAT == "FLOAT"
BOOL == "BOOL"
STRING_TYPE == "STRING_TYPE"
tokens_IN == "IN"
tokens_OUT == "OUT"
Types == {INT, FLOAT, BOOL, STRING_TYPE}

\* the lexemes of the boolean literals, which the parser keeps in a Num
TRUE_LEXEME == <<"t", "r", "u", "e">>
FALSE_LEXEME == <<"f", "a", "l", "s", "e">>

\* a TypeCheckError raised where a type was to be returned
Raise == "raise"

EmptyScope == [k \in {} |-> None]

\* Checker.__init__
NewChecker == [global_scope |-> EmptyScope, scopes |-> <<EmptyScope>>, error_encountered |-> FALSE]

report_error(c) == [c EXCEPT !.error_encountered = TRUE]
enter_scope(c) == [c EXCEPT !.scopes = Append(@, EmptyScope)]
leave_scope(c) == [c EXCEPT !.scopes = SubSeq(@, 1, Len(@) - 1)]

Found(decl) == [found |-> TRUE, decl |-> decl]
NotFound == [found |-> FALSE, decl |-> None]

\* a lookup that goes through the enclosing program scope as well
LookupScopesEnclosing(c) == <<c.scopes[Len(c.scopes)] @@ c.scopes[1], c.global_scope>>

\* the scopes a lookup goes through: the innermost scope, then the global one
LookupScopes(c) == <<c.scopes[Len(c.scopes)], c.global_scope>>

\* Checker.get_decl on a Name or a Subscript; NotFound is its TypeCheckError
get_decl(c, name) ==
    LET key == IF name.kind = "Name" THEN name
               ELSE IF name.kind = "Subscript" THEN name.name
               ELSE None
        chain == LookupScopes(c)
    IN  IF key.kind # "Name" THEN NotFound
        ELSE IF key.id \in DOMAIN chain[1] THEN Found(chain[1][key.id])
        ELSE IF key.id \in DOMAIN chain[2] THEN Found(chain[2][key.id])
        ELSE NotFound

\* Checker.unify_types
unify_types(type_a, type_b) ==
    IF type_a = type_b THEN type_a
    ELSE IF {type_a, type_b} = {INT, FLOAT} THEN FLOAT
    ELSE IF {type_a, type_b} = {INT, BOOL} THEN BOOL
    ELSE Raise

HasDot(n) == \E i \in 1..Len(n) : n[i] = "."

Typed(c, node, type) == [c |-> c, node |-> node, type |-> type]
Annotate(node, type) == [node EXCEPT !.node_type = type]

RECURSIVE get_type(_, _)
RECURSIVE unify_node_types(_, _, _)

\* get_type on a BinaryOp, once its operands are unified (u)
binaryop_type(node, u) ==
    LET n1 == [node EXCEPT !.left = u.a, !.right = u.b]
    IN  IF u.type = Raise THEN Typed(u.c, n1, Raise)
        ELSE IF u.type \notin {BOOL, INT} /\ node.op \in {"&", "|", "not"}
        THEN Typed(u.c, n1, Raise)
        ELSE IF u.type \notin {INT, FLOAT, BOOL} THEN Typed(u.c, n1, Raise)
        ELSE Typed(u.c, Annotate(n1, u.type), u.type)

\* get_type on a UnaryOp, once its operand is typed (t)
unaryop_type(node, t) ==
    LET n1 == [node EXCEPT !.operand = t.node]
    IN  IF t.type = Raise THEN Typed(t.c, n1, Raise)
        ELSE IF t.type = FLOAT /\ node.op = "not" THEN Typed(t.c, n1, Raise)
        ELSE Typed(t.c, Annotate(n1, t.type), t.type)

num_type(node) ==
    IF node.n \in {TRUE_LEXEME, FALSE_LEXEME} THEN BOOL
    ELSE IF HasDot(node.n) THEN FLOAT ELSE INT

\* get_type on a Name whose declaration is d
name_type(c, node, d) ==
    IF ~d.found THEN Typed(c, node, Raise)
    ELSE IF d.decl.kind = "Param"
    THEN IF d.decl.direction # tokens_IN THEN Typed(c, node, Raise)
         ELSE Typed(c, Annotate(node, d.decl.var_decl.type), d.decl.var_decl.type)
    ELSE IF d.decl.kind = "ProcDecl" THEN Typed(c, node, Raise)
    ELSE Typed(c, Annotate(node, d.decl.type), d.decl.type)

\* the declaration a Subscript reads its type from: that of a Param is its var_decl
subscript_decl(d) == IF d.found /\ d.decl.kind = "Param" THEN d.decl.var_decl ELSE d.decl

\* get_type on a Subscript of an array declared by decl, once its index is typed (t)
subscript_type(node, decl, t) ==
    LET n1 == [node EXCEPT !.index = t.node]
    IN  IF t.type # INT THEN Typed(t.c, n1, Raise)
        ELSE Typed(t.c, Annotate(n1, decl.type), decl.type)

\* Checker.get_type: the checker after the call, the node with the node_type
\* attributes the call attached, and the type returned (Raise: TypeCheckError)
get_type(c, node) ==
    CASE node.kind = "BinaryOp" ->
            binaryop_type(node, unify_node_types(c, node.left, node.right))
      [] node.kind = "UnaryOp" -> unaryop_type(node, get_type(c, node.operand))
      [] node.kind = "Num" -> Typed(c, Annotate(node, num_type(node)), num_type(node))
      [] node.kind = "Name" -> name_type(c, node, get_decl(c, node))
      [] node.kind = "Subscript" ->
            LET d == get_decl(c, node.name)
            IN  IF ~d.found THEN Typed(c, node, Raise)
                ELSE IF subscript_decl(d).kind # "VarDecl" THEN Typed(c, node, Raise)
                ELSE IF subscript_decl(d).array_length = None THEN Typed(c, node, Raise)
                ELSE subscript_type(node, subscript_decl(d), get_type(c, node.index))
      [] node.kind = "Str" -> Typed(c, Annotate(node, STRING_TYPE), STRING_TYPE)
      [] OTHER -> Typed(c, node, Raise)

\* the end of unify_node_types, both nodes typed (ta, tb): an error in node_a
\* is reported when node_b raises too
unified(ta, tb) ==
    [c |-> IF ta.type = Raise /\ tb.type = Raise THEN report_error(tb.c) ELSE tb.c,
     a |-> ta.node, b |-> tb.node,
     type |-> IF ta.type = Raise \/ tb.type = Raise THEN Raise
              ELSE unify_types(ta.type, tb.type)]

unify_second(ta, node_b) == unified(ta, get_type(ta.c, node_b))

\* Checker.unify_node_types
unify_node_types(c, node_a, node_b) == unify_second(get_type(c, node_a), node_b)

\* the outcome of a visit_* function: the checker, the node as annotated, and
\* the exception that escaped the checker ("none" if none did)
Checked(c, node, exc) == [c |-> c, node |-> node, exc |-> exc]

\* scope[name] = value
bind(c, name, value, is_global) ==
    IF is_global THEN [c EXCEPT !.global_scope = (name.id :> value) @@ @]
    ELSE [c EXCEPT !.scopes[Len(c.scopes)] = (name.id :> value) @@ @]

\* define_variable on an array declaration, its array_length typed (t)
define_array(name, value, is_global, t) ==
    IF t.type = Raise THEN Checked(t.c, value, "TypeCheckError")
    ELSE Checked(bind(IF t.type # INT THEN report_error(t.c) ELSE t.c,
                      name, [value EXCEPT !.array_length = t.node], is_global),
                 [value EXCEPT !.array_length = t.node], "none")

\* `if name in scope: self.report_error(...)`
check_redefinition(c, name, is_global) ==
    IF name.id \in DOMAIN (IF is_global THEN c.global_scope ELSE c.scopes[Len(c.scopes)])
    THEN report_error(c) ELSE c

\* Checker.define_variable
define_variable(c, name, value, is_global) ==
    IF value.kind = "VarDecl" /\ value.array_length # None
    THEN define_array(name, value, is_global,
                      get_type(check_redefinition(c, name, is_global), value.array_length))
    ELSE Checked(bind(check_redefinition(c, name, is_global), name, value, is_global),
                 value, "none")

\* the end of the loop body of visit_call, the argument typed (t)
check_arg_type(param, t) ==
    IF t.type = Raise THEN Checked(report_error(t.c), t.node, "none")
    ELSE IF unify_types(t.type, param.var_decl.type) = Raise
    THEN Checked(report_error(t.c), t.node, "none")
    ELSE Checked(t.c, t.node, "none")

\* the body of the loop over zip(node.args, proc_decl.params) in visit_call
check_arg(c, arg, param) ==
    LET d == get_decl(c, arg)
        isOut == param.direction = tokens_OUT
    IN  IF isOut /\ arg.kind # "Name" THEN Checked(report_error(c), arg, "none")
        ELSE IF isOut /\ d.found /\ d.decl.kind = "Param" /\ d.decl.direction = tokens_OUT
        THEN Checked(c, arg, "none")
        ELSE check_arg_type(param,
                            get_type(IF isOut /\ ~d.found THEN report_error(c) ELSE c, arg))

RECURSIVE check_args(_, _, _, _)
check_args_rest(r, args, params, i) ==
    check_args(r.c, [args EXCEPT ![i] = r.node], params, i + 1)

check_args(c, args, params, i) ==
    IF i > Len(args) \/ i > Len(params) THEN Checked(c, args, "none")
    ELSE check_args_rest(check_arg(c, args[i], params[i]), args, params, i)

call_checked(node, r) == Checked(r.c, [node EXCEPT !.args = r.node], "none")

\* Checker.visit_call
visit_call(c, node) ==
    LET d == get_decl(c, node.func)
    IN  IF ~d.found THEN Checked(report_error(c), node, "none")
        ELSE IF d.decl.kind # "ProcDecl" THEN Checked(c, node, "AttributeError")
        ELSE call_checked(node,
                 check_args(IF Len(node.args) # Len(d.decl.params) THEN report_error(c) ELSE c,
                            node.args, d.decl.params, 1))

\* visit_assign on a Param target of type ptype, the value typed (t)
assign_param(node, ptype, t) ==
    LET n1 == [node EXCEPT !.value = t.node]
    IN  IF t.type = Raise THEN Checked(report_error(t.c), n1, "none")
        ELSE IF unify_types(ptype, t.type) = Raise THEN Checked(report_error(t.c), n1, "none")
        ELSE Checked(t.c, [n1 EXCEPT !.target = Annotate(@, ptype)], "none")

\* visit_assign on any other target, target and value unified (u)
assign_unified(node, u) ==
    Checked(IF u.type = Raise THEN report_error(u.c) ELSE u.c,
            [node EXCEPT !.target = u.a, !.value = u.b], "none")

\* Checker.visit_assign
visit_assign(c, node) ==
    LET d == get_decl(c, node.target)
    IN  IF ~d.found THEN Checked(report_error(c), node, "none")
        ELSE IF d.decl.kind = "Param"
        THEN assign_param(node, d.decl.var_decl.type,
                 get_type(IF d.decl.direction = tokens_IN THEN report_error(c) ELSE c,
                          node.value))
        ELSE assign_unified(node, unify_node_types(c, node.target, node.value))

RECURSIVE visit(_, _)
RECURSIVE visit_list(_, _, _)
RECURSIVE define_all(_, _, _, _, _)

visit_list_rest(r, nodes, i) ==
    IF r.exc # "none" THEN Checked(r.c, [nodes EXCEPT ![i] = r.node], r.exc)
    ELSE visit_list(r.c, [nodes EXCEPT ![i] = r.node], i + 1)

\* `for child in field: self._visit(child)` from element i on
visit_list(c, nodes, i) ==
    IF i > Len(nodes) THEN Checked(c, nodes, "none")
    ELSE visit_list_rest(visit(c, nodes[i]), nodes, i)

define_all_rest(r, decls, i, atTop, isParams) ==
    IF r.exc # "none" THEN Checked(r.c, decls, r.exc)
    ELSE define_all(r.c, [decls EXCEPT ![i] = r.node], i + 1, atTop, isParams)

\* define_variable on each declaration of a list from element i on: the
\* loops of visit_program (atTop) and of visit_procdecl, where a declaration
\* marked global is an error and goes to the local scope
define_all(c, decls, i, atTop, isParams) ==
    IF i > Len(decls) THEN Checked(c, decls, "none")
    ELSE define_all_rest(
             define_variable(
                 IF ~atTop /\ ~isParams /\ decls[i].is_global THEN report_error(c) ELSE c,
                 IF isParams THEN decls[i].var_decl.name ELSE decls[i].name,
                 decls[i],
                 atTop /\ decls[i].is_global),
             decls, i, atTop, isParams)

\* the steps of visit_procdecl and visit_program, each taking the outcome of
\* the one before it
body_visited(node, vb, isProc) ==
    Checked(IF isProc /\ vb.exc = "none" THEN leave_scope(vb.c) ELSE vb.c,
            [node EXCEPT !.body = vb.node], vb.exc)

decls_visited(node, vd, isProc) ==
    IF vd.exc # "none" THEN Checked(vd.c, node, vd.exc)
    ELSE body_visited([node EXCEPT !.decls = vd.node], visit_list(vd.c, node.body, 1), isProc)

decls_defined(node, ds, isProc) ==
    IF ds.exc # "none" THEN Checked(ds.c, node, ds.exc)
    ELSE decls_visited(node, visit_list(ds.c, ds.node, 1), isProc)

params_defined(node, ps) ==
    IF ps.exc # "none" THEN Checked(ps.c, node, ps.exc)
    ELSE decls_defined([node EXCEPT !.params = ps.node],
                       define_all(ps.c, node.decls, 1, FALSE, FALSE), TRUE)

\* Checker.visit_procdecl
visit_procdecl(c, node) ==
    params_defined(node,
        define_all(define_variable(enter_scope(c), node.name, node, FALSE).c,
                   node.params, 1, FALSE, TRUE))

\* Checker.visit_program
visit_program(c, node) ==
    decls_defined(node, define_all(c, node.decls, 1, TRUE, FALSE), FALSE)

orelse_visited(node, e) == Checked(e.c, [node EXCEPT !.orelse = e.node], e.exc)

if_then_visited(node, b) ==
    IF b.exc # "none" THEN Checked(b.c, [node EXCEPT !.body = b.node], b.exc)
    ELSE orelse_visited([node EXCEPT !.body = b.node], visit_list(b.c, node.orelse, 1))

for_assignment_visited(node, a) ==
    IF a.exc # "none" THEN Checked(a.c, [node EXCEPT !.assignment = a.node], a.exc)
    ELSE body_visited([node EXCEPT !.assignment = a.node], visit_list(a.c, node.body, 1), FALSE)

\* TreeWalker._visit with the Checker's visit_functions; a node without one
\* has its children visited, which reaches the statements of an If or a For
\* and nothing inside an expression
visit(c, node) ==
    CASE node.kind = "Program" -> visit_program(c, node)
      [] node.kind = "ProcDecl" -> visit_procdecl(c, node)
      [] node.kind = "Assign" -> visit_assign(c, node)
      [] node.kind = "Call" -> visit_call(c, node)
      [] node.kind = "If" -> if_then_visited(node, visit_list(c, node.body, 1))
      [] node.kind = "For" -> for_assignment_visited(node, visit(c, node.assignment))
      [] OTHER -> Checked(c, node, "none")

tree_checked(r) ==
    [valid |-> r.exc = "none" /\ ~r.c.error_encountered, exc |-> r.exc, node |-> r.node]

\* tree_is_valid: what it returns (`valid`, when no exception escaped), the
\* exception that escaped, and the tree as the walk left it
tree_is_valid(node) == tree_checked(visit(NewChecker, node))

(***************************************************************************)
(* The older checker (src/src/typechecker.py, _Checker): it reports errors *)
(* where the later one raises, and unify_types takes the two nodes.        *)
(***************************************************************************)
NoType == "None"

src_get_decl(c, name) ==
    LET chain == LookupScopes(c)
    IN  IF name.kind # "Name" THEN [c |-> report_error(c), found |-> FALSE, decl |-> None]
        ELSE IF name.id \in DOMAIN chain[1] THEN [c |-> c, found |-> TRUE, decl |-> chain[1][name.id]]
        ELSE IF name.id \in DOMAIN chain[2] THEN [c |-> c, found |-> TRUE, decl |-> chain[2][name.id]]
        ELSE [c |-> report_error(c), found |-> FALSE, decl |-> None]

RECURSIVE src_get_type(_, _)
RECURSIVE src_unify_types(_, _, _)

src_typed(c, type) == [c |-> c, type |-> type]

\* _Checker.get_type on a BinaryOp, once its operands are unified (u)
src_binaryop_type(node, u) ==
    IF u.type = NoType THEN u
    ELSE IF u.type # INT /\ node.op \in {"&", "|", "not"}
    THEN src_typed(report_error(u.c), u.type)
    ELSE IF u.type \notin {INT, FLOAT} THEN src_typed(report_error(u.c), u.type)
    ELSE u

\* _Checker.get_type on a Subscript of the declaration d, its index typed (t)
src_subscript_type(d, t) ==
    IF t.type # INT THEN src_typed(report_error(t.c), NoType)
    ELSE src_typed(t.c, d.decl.type)

\* _Checker.get_type: the checker after the call and the type (NoType: None)
src_get_type(c, node) ==
    CASE node.kind = "BinaryOp" ->
            src_binaryop_type(node, src_unify_types(c, node.left, node.right))
      [] node.kind = "UnaryOp" -> src_get_type(c, node.operand)
      [] node.kind = "Num" -> src_typed(c, IF HasDot(node.n) THEN FLOAT ELSE INT)
      [] node.kind = "Name" ->
            LET d == src_get_decl(c, node)
            IN  src_typed(d.c, IF d.found THEN d.decl.type ELSE NoType)
      [] node.kind = "Subscript" ->
            LET d == src_get_decl(c, node.name)
            IN  IF ~d.found THEN src_typed(d.c, NoType)
                ELSE IF d.decl.kind # "VarDecl" THEN src_typed(report_error(d.c), NoType)
                ELSE IF d.decl.array_length = None THEN src_typed(report_error(d.c), NoType)
                ELSE src_subscript_type(d, src_get_type(d.c, node.index))
      [] node.kind = "Str" -> src_typed(c, STRING_TYPE)
      [] OTHER -> src_typed(c, NoType)

\* `if type == tokens.BOOL: type = tokens.INT`
bool_as_int(type) == IF type = BOOL THEN INT ELSE type

\* the end of _Checker.unify_types, both operands typed (ta, tb)
src_unified(ta, tb) ==
    IF NoType \in {ta.type, tb.type} THEN src_typed(tb.c, NoType)
    ELSE IF bool_as_int(ta.type) = bool_as_int(tb.type) THEN src_typed(tb.c, bool_as_int(ta.type))
    ELSE IF {bool_as_int(ta.type), bool_as_int(tb.type)} = {INT, FLOAT} THEN src_typed(tb.c, FLOAT)
    ELSE src_typed(report_error(tb.c), NoType)

src_unify_second(ta, b) == src_unified(ta, src_get_type(ta.c, b))

\* _Checker.unify_types
src_unify_types(c, a, b) == src_unify_second(src_get_type(c, a), b)

(***************************************************************************)
(* Unifying two operands: one variable declared of each type, and the      *)
(* literals, under either checker.                                         *)
(***************************************************************************)
id_i == <<"i">>
id_j == <<"j">>
id_r == <<"r">>
id_b == <<"b">>
id_s == <<"s">>

Scalar(type, id) == VarDecl(FALSE, type, Name(id), None)

\* a checker in the body of a program declaring int i, j; float r; bool b; string s
UnifyChecker ==
    define_all(NewChecker,
               <<Scalar(INT, id_i), Scalar(INT, id_j), Scalar(FLOAT, id_r),
                 Scalar(BOOL, id_b), Scalar(STRING_TYPE, id_s)>>, 1, TRUE, FALSE).c

UnifyNodes ==
    {Name(id_i), Name(id_j), Name(id_r), Name(id_b), Name(id_s),
     Num(<<"1">>), Num(<<"1", ".", "5">>), Str(<<"\"", "s", "\"">>)}

InitUnify ==
    /\ phase = "unify"
    /\ impl \in {"ececompiler", "src"}
    /\ line = <<>> /\ pos = 0 /\ out = <<>> /\ status = "idle"
    /\ input \in UnifyNodes \X UnifyNodes
    /\ result = None

\* Checker.unify_node_types on the two operands (src/ececompiler)
UnifyEce ==
    /\ phase = "unify" /\ impl = "ececompiler" /\ result = None
    /\ LET u == unify_node_types(UnifyChecker, input[1], input[2])
       IN  result' = [type |-> u.type, a |-> input[1], b |-> input[2]]
    /\ UNCHANGED <<phase, scanVars, input>>

\* _Checker.unify_types on the two operands (src/src)
UnifySrc ==
    /\ phase = "unify" /\ impl = "src" /\ result = None
    /\ LET u == src_unify_types(UnifyChecker, input[1], input[2])
       IN  result' = [type |-> u.type, a |-> input[1], b |-> input[2]]
    /\ UNCHANGED <<phase, scanVars, input>>

NextUnify == UnifyEce \/ UnifySrc
SpecUnify == InitUnify /\ [][NextUnify]_vars

UnifyDone == phase = "unify" /\ result # None

\* the documented table: equal types unify to themselves, int with float to
\* float, int with bool to bool, every other pair is an error
DocumentedUnify(a, b) ==
    IF a = b THEN a
    ELSE IF {a, b} = {INT, FLOAT} THEN FLOAT
    ELSE IF {a, b} = {INT, BOOL} THEN BOOL
    ELSE "error"

\* the declared type of an operand of UnifyNodes
OperandType(node) ==
    CASE node.kind = "Str" -> STRING_TYPE
      [] node.kind = "Num" -> IF HasDot(node.n) THEN FLOAT ELSE INT
      [] node.id \in {id_i, id_j} -> INT
      [] node.id = id_r -> FLOAT
      [] node.id = id_b -> BOOL
      [] OTHER -> STRING_TYPE

UnifyOutcome == IF result.type \in Types THEN result.type ELSE "error"

\* C5: unifying two operands gives the outcome of the documented table for
\* their two types, under either checker: a type with itself is that type, int
\* with float is float, int with bool is bool, any other pair is an error
\* (the table is symmetric, so the outcome for (b, a) is then that for (a, b)).
C5_UnifyFollowsTable ==
    UnifyDone => UnifyOutcome = DocumentedUnify(OperandType(input[1]), OperandType(input[2]))

(***************************************************************************)
(* Type checking a program: the programs are those of the shape            *)
(*   program p is [global] int a;                                          *)
(*     [global] procedure g(T y in|out) begin [y := 1;] end procedure;     *)
(*     procedure f(T x in|out) int v; int arr[1]; begin S end procedure;   *)
(*   begin M end program                                                   *)
(* and the out-parameter forwarding program with and without `global`.     *)
(***************************************************************************)
id_p == <<"p">>
id_a == <<"a">>
id_g == <<"g">>
id_f == <<"f">>
id_x == <<"x">>
id_y == <<"y">>
id_v == <<"v">>
id_arr == <<"a", "r", "r">>

One == Num(<<"1">>)
Zero == Num(<<"0">>)

ProcG(is_global, type, direction, body) ==
    ProcDecl(is_global, Name(id_g), <<Param(Scalar(type, id_y), direction)>>, <<>>, body)
ProcF(type, direction, decls, body) ==
    ProcDecl(FALSE, Name(id_f), <<Param(Scalar(type, id_x), direction)>>, decls, body)
CheckProgram(a_global, g, f, body) ==
    Program(Name(id_p), <<VarDecl(a_global, INT, Name(id_a), None), g, f>>, body)

FLocals == <<Scalar(INT, id_v), VarDecl(FALSE, INT, Name(id_arr), One)>>
GBodies == {<<>>, <<Assign(Name(id_y), One)>>}
FStatements ==
    {Assign(Name(id_x), One),
     Assign(Name(id_v), Name(id_x)),
     Assign(Name(id_v), BinaryOp("+", Name(id_x), One)),
     Assign(Name(id_v), One),
     Assign(Subscript(Name(id_arr), Name(id_x)), One),
     Assign(Name(id_v), Subscript(Name(id_arr), Zero)),
     Call(Name(id_g), <<Name(id_x)>>),
     Call(Name(id_g), <<Name(id_v)>>),
     Call(Name(id_g), <<One>>),
     Call(Name(id_g), <<>>),
     Call(Name(id_a), <<>>),
     Call(Name(id_x), <<>>),
     If(Name(id_x), <<Assign(Name(id_v), One)>>, <<>>),
     If(BinaryOp("<", Name(id_v), One), <<Assign(Name(id_v), One)>>, <<Assign(Name(id_x), One)>>),
     For(Assign(Name(id_v), One), BinaryOp("<", Name(id_v), Name(id_x)), <<>>),
     For(Assign(Name(id_v), One), BinaryOp("<", Name(id_v), One), <<Assign(Name(id_v), Name(id_x))>>)}
MainStatements ==
    {Call(Name(id_f), <<Name(id_a)>>),
     Call(Name(id_f), <<One>>),
     Call(Name(id_f), <<>>),
     Call(Name(id_a), <<>>),
     Assign(Name(id_a), One),
     If(Name(id_a), <<Call(Name(id_f), <<Name(id_a)>>)>>, <<>>)}
CheckTypes == {INT, STRING_TYPE}
Directions == {tokens_IN, tokens_OUT}

CheckFamily(types) ==
    {CheckProgram(ag, ProcG(gg, tg, dg, gb), ProcF(tf, df, FLocals, <<fs>>), <<ms>>) :
        ag \in BOOLEAN, gg \in BOOLEAN, tg \in types, dg \in Directions, gb \in GBodies,
        tf \in types, df \in Directions, fs \in FStatements, ms \in MainStatements}

\* int a; procedure g(int y out) begin y := 1; end procedure;
\* procedure f(int x out) begin g(x); end procedure; begin f(a); end program
Forwarding(g_global) ==
    CheckProgram(FALSE,
                 ProcG(g_global, INT, tokens_OUT, <<Assign(Name(id_y), One)>>),
                 ProcF(INT, tokens_OUT, <<>>, <<Call(Name(id_g), <<Name(id_x)>>)>>),
                 <<Call(Name(id_f), <<Name(id_a)>>)>>)
Scenario6 == Forwarding(FALSE)
Scenario6Global == Forwarding(TRUE)

CheckInputs(types) == CheckFamily(types) \cup {Scenario6, Scenario6Global}

InitCheck ==
    /\ phase = "check"
    /\ ScanIdle
    /\ input \in CheckInputs(CheckTypes)
    /\ result = None

\* typechecker.tree_is_valid(input)
TreeIsValid ==
    /\ phase = "check" /\ result = None
    /\ result' = tree_is_valid(input)
    /\ UNCHANGED <<phase, scanVars, input>>

NextCheck == TreeIsValid
SpecCheck == InitCheck /\ [][NextCheck]_vars

CheckDone == phase = "check" /\ result # None

(***************************************************************************)
(* What the claims about the checker speak of: the statements of a body,   *)
(* the expressions a statement evaluates, the declaration a name stands    *)
(* for where it is used (the procedure's own names, then the program's).   *)
(***************************************************************************)
RECURSIVE Nested(_)
StmtsOf(body) == UNION {Nested(body[i]) : i \in DOMAIN body}
Nested(stmt) ==
    {stmt} \cup
        (CASE stmt.kind = "If" -> StmtsOf(stmt.body) \cup StmtsOf(stmt.orelse)
           [] stmt.kind = "For" -> {stmt.assignment} \cup StmtsOf(stmt.body)
           [] OTHER -> {})

RECURSIVE SubExprs(_)
SubExprs(e) ==
    {e} \cup
        (CASE e.kind = "BinaryOp" -> SubExprs(e.left) \cup SubExprs(e.right)
           [] e.kind = "UnaryOp" -> SubExprs(e.operand)
           [] e.kind = "Subscript" -> SubExprs(e.index)
           [] OTHER -> {})

NamesIn(e) == {n.id : n \in {x \in SubExprs(e) : x.kind = "Name"}}

DeclId(d) == IF d.kind = "Param" THEN d.var_decl.name.id ELSE d.name.id
DeclType(d) == IF d.kind = "Param" THEN d.var_decl.type ELSE d.type
OwnDecls(proc) == IF proc = None THEN <<>> ELSE <<proc>> \o proc.params \o proc.decls
Lookup(decls, id) ==
    IF \E i \in DOMAIN decls : DeclId(decls[i]) = id
    THEN decls[CHOOSE i \in DOMAIN decls : DeclId(decls[i]) = id]
    ELSE None
Resolve(prog, proc, id) ==
    IF Lookup(OwnDecls(proc), id) # None THEN Lookup(OwnDecls(proc), id)
    ELSE Lookup(prog.decls, id)

\* the procedures of a program, and None for its main body
Bodies(prog) ==
    {None} \cup {prog.decls[i] : i \in {j \in DOMAIN prog.decls : prog.decls[j].kind = "ProcDecl"}}
BodyOf(prog, proc) == IF proc = None THEN prog.body ELSE proc.body

\* the indexes of the arguments of a call bound to a parameter of a direction
ArgsBound(prog, proc, call, direction) ==
    LET d == Resolve(prog, proc, call.func.id)
    IN  IF d.kind # "ProcDecl" THEN {}
        ELSE {i \in DOMAIN call.args \cap DOMAIN d.params : d.params[i].direction = direction}

\* the expressions a statement evaluates itself
Evaluated(prog, proc, stmt) ==
    CASE stmt.kind = "Assign" ->
            {stmt.value} \cup (IF stmt.target.kind = "Subscript" THEN {stmt.target.index} ELSE {})
      [] stmt.kind = "Call" -> {stmt.args[i] : i \in ArgsBound(prog, proc, stmt, tokens_IN)}
      [] stmt.kind \in {"If", "For"} -> {stmt.test}
      [] OTHER -> {}

AllEvaluated(prog) ==
    UNION {UNION {UNION {SubExprs(e) : e \in Evaluated(prog, proc, stmt)} :
                  stmt \in StmtsOf(BodyOf(prog, proc))} : proc \in Bodies(prog)}

\* C4: when tree_is_valid has returned true, every expression in an evaluated
\* context (an Assign value, an argument bound to an in parameter, a
\* Subscript index, the test of an If or a For, and their sub-expressions)
\* has node_type set to int, float, bool or string.
C4_EvaluatedExpressionsTyped ==
    (CheckDone /\ result.exc = "none" /\ result.valid) =>
        \A e \in AllEvaluated(result.node) : e.node_type \in Types

\* a procedure reads one of its out parameters or assigns to one of its in
\* parameters
TargetId(target) == IF target.kind = "Subscript" THEN target.name.id ELSE target.id
ParamMisused(prog, proc) ==
    \E i \in DOMAIN proc.params, stmt \in StmtsOf(proc.body) :
        \/ /\ proc.params[i].direction = tokens_OUT
           /\ \E e \in Evaluated(prog, proc, stmt) : DeclId(proc.params[i]) \in NamesIn(e)
        \/ /\ proc.params[i].direction = tokens_IN
           /\ stmt.kind = "Assign"
           /\ TargetId(stmt.target) = DeclId(proc.params[i])

\* C6: a procedure body that reads an out parameter (in an assignment value,
\* an argument to an in parameter, a subscript index, the test of an If or a
\* For) or assigns to an in parameter makes tree_is_valid return false.
C6_ParamDirectionEnforced ==
    (CheckDone /\ result.exc = "none"
        /\ \E proc \in Bodies(input) \ {None} : ParamMisused(input, proc))
    => ~result.valid

BadCall(prog, proc, stmt) ==
    /\ stmt.kind = "Call"
    /\ LET d == Resolve(prog, proc, stmt.func.id)
       IN  \/ d.kind \in {"VarDecl", "Param"}
           \/ d.kind = "ProcDecl" /\ Len(d.params) # Len(stmt.args)

\* C7: a Call whose name stands for a VarDecl or a Param, or whose number of
\* arguments is not the number of parameters, makes tree_is_valid return
\* false, and no exception escapes the checker.
C7_BadCallReported ==
    (CheckDone /\ \E proc \in Bodies(input) :
                      \E stmt \in StmtsOf(BodyOf(input, proc)) : BadCall(input, proc, stmt))
    => (result.exc = "none" /\ ~result.valid)

BadOutArgument(prog, proc, stmt) ==
    /\ stmt.kind = "Call"
    /\ \E i \in ArgsBound(prog, proc, stmt, tokens_OUT) :
          \/ stmt.args[i].kind # "Name"
          \/ /\ stmt.args[i].kind = "Name"
             /\ LET a == Resolve(prog, proc, stmt.args[i].id)
                    p == Resolve(prog, proc, stmt.func.id).params[i]
                IN  /\ a.kind \in {"VarDecl", "Param"}
                    /\ unify_types(DeclType(a), DeclType(p)) = Raise

\* C8: an argument bound to an out parameter that is not a Name, or whose
\* declared type does not unify with the parameter's type, makes tree_is_valid
\* return false, also when the argument is an out parameter of the enclosing
\* procedure being forwarded.
C8_OutArgumentUnifies ==
    (CheckDone /\ result.exc = "none"
        /\ \E proc \in Bodies(input) :
              \E stmt \in StmtsOf(BodyOf(input, proc)) : BadOutArgument(input, proc, stmt))
    => ~result.valid

\* the body of f calls g
FCallsG(prog) ==
    \E stmt \in StmtsOf(prog.decls[3].body) : stmt.kind = "Call" /\ stmt.func.id = id_g

\* C9 (as stated): tree_is_valid returns true for the out-parameter forwarding
\* program, where g is declared at top level without `global` and called from
\* the body of f.
C9_Scenario6Valid ==
    (CheckDone /\ input = Scenario6) => (result.exc = "none" /\ result.valid)

\* C9 (as the checker behaves): a call of g from the body of f is an error
\* when g is declared without `global`, so tree_is_valid returns false for the
\* forwarding program as written; it returns true once g is declared global.
C9_SiblingCallNeedsGlobal ==
    CheckDone =>
        /\ (FCallsG(input) /\ ~input.decls[2].is_global) => ~result.valid
        /\ input = Scenario6 => (result.exc = "none" /\ ~result.valid)
        /\ input = Scenario6Global => (result.exc = "none" /\ result.valid)

C9_ForwardingChecked == CheckDone /\ input = Scenario6 /\ ~result.valid

(***************************************************************************)
(* Parser (src/src/parser.py, _Parser).  A parser is the token stream, the *)
(* index i of the current token (0 before the first advance_token), the    *)
(* error flag, the exception in flight ("none" if none) and the values the *)
(* running methods hold, innermost last.  Every step takes the parser the  *)
(* step before it left and does nothing when an exception is in flight.    *)
(***************************************************************************)
Tok(type, token) == [type |-> type, token |-> token]

NewParser(toks) ==
    [toks |-> toks, i |-> 0, error_encountered |-> FALSE, exc |-> "none", stack |-> <<>>]

raise(r, exc) == [r EXCEPT !.exc = exc]
push(r, v) == [r EXCEPT !.stack = Append(@, v)]
top(r) == r.stack[Len(r.stack)]
second(r) == r.stack[Len(r.stack) - 1]
pop(r, n) == [r EXCEPT !.stack = SubSeq(@, 1, Len(@) - n)]

\* self.token and self.next_token; the lookahead is None before the first
\* advance_token and once the current token is the last of the stream
token(r) == r.toks[r.i]
next_is_none(r) == r.i = 0 \/ r.i >= Len(r.toks)
next_token(r) == r.toks[r.i + 1]

\* self.next_token.type is one of types; callers guard next_is_none
next_type_in(r, types) == ~next_is_none(r) /\ next_token(r).type \in types

\* _Parser.advance_token: next() on the exhausted iterator raises StopIteration
advance_token(r) ==
    IF r.exc # "none" THEN r
    ELSE IF r.i >= Len(r.toks) THEN raise(r, "StopIteration")
    ELSE [r EXCEPT !.i = @ + 1]

\* the end of match, the token advanced
match_advanced(r, token_type) ==
    IF r.exc # "none" THEN r
    ELSE IF token(r).type = "ERROR" THEN raise(r, "ParseError")
    ELSE IF token(r).type # token_type THEN raise(r, "ParseError")
    ELSE r

\* _Parser.match
match(r, token_type) ==
    IF r.exc # "none" THEN r
    ELSE IF next_type_in(r, {"EOF"}) THEN raise(r, "ParseError")
    ELSE match_advanced(advance_token(r), token_type)

\* _Parser._consume_optional_token: the parser, and on its stack whether the
\* token was there
consume_optional_token(r, tok) ==
    IF r.exc # "none" THEN r
    ELSE IF token(r).type = tok THEN push(advance_token(r), TRUE)
    ELSE push(r, FALSE)

\* the `while` of resync_point
RECURSIVE skip_to_followset(_)
skip_to_followset(r) ==
    IF r.exc # "none" THEN r
    ELSE IF next_is_none(r) THEN raise(r, "AttributeError")
    ELSE IF next_token(r).type \in {"SEMICOLON", "EOF"} THEN r
    ELSE skip_to_followset(advance_token(r))

\* leaving `with self.resync_point(tokens.SEMICOLON)`: a ParseError of the
\* block is caught, the values of the block dropped (the stack is back to
\* what it was at entry), and tokens skipped
resync_point(r, entry) ==
    IF r.exc # "ParseError" THEN r
    ELSE skip_to_followset([r EXCEPT !.exc = "none", !.error_encountered = TRUE, !.stack = entry])

\* expression_operators: the precedence of a symbol (0: Symbol's default)
InfixOperators ==
    {"OR", "AND", "PLUS", "MINUS", "LT", "GTE", "LTE", "GT", "EQUAL", "NOTEQUAL",
     "MULTIPLY", "DIVIDE"}
precedence(type) ==
    CASE type \in {"OR", "AND", "NOT"} -> 1
      [] type \in {"PLUS", "MINUS"} -> 2
      [] type \in {"LT", "GTE", "LTE", "GT", "EQUAL", "NOTEQUAL"} -> 3
      [] type \in {"MULTIPLY", "DIVIDE"} -> 4
      [] type \in {"OPENPAREN", "OPENBRACKET"} -> 5
      [] OTHER -> 0

\* a prefix minus that binds like the infix one
prefix_precedence_of_infix(type) == precedence(type)

\* the precedence a prefix operator parses its operand with: Minus(2, 7)
prefix_precedence(type) == IF type = "MINUS" THEN 7 ELSE precedence(type)

\* the true and false tokens parse as their kind, not as a node
Bare(type) == [kind |-> type]

RECURSIVE expression(_, _)

unary_op(r, op) ==
    IF r.exc # "none" THEN r ELSE push(pop(r, 1), UnaryOp(op, top(r)))

binary_op(r, op) ==
    IF r.exc # "none" THEN r ELSE push(pop(r, 2), BinaryOp(op, second(r), top(r)))

subscript(r) ==
    IF r.exc # "none" THEN r ELSE push(pop(r, 2), Subscript(second(r), top(r)))

\* self.current_symbol.prefix()
prefix(r) ==
    IF r.exc # "none" THEN r
    ELSE CASE token(r).type = "NUMBER" -> push(r, Num(token(r).token))
           [] token(r).type = "IDENTIFIER" -> push(r, Name(token(r).token))
           [] token(r).type = "STRING" -> push(r, Str(token(r).token))
           [] token(r).type \in {"TRUE", "FALSE"} -> push(r, Bare(token(r).type))
           [] token(r).type \in {"NOT", "MINUS"} ->
                unary_op(expression(r, prefix_precedence(token(r).type)), token(r).type)
           [] token(r).type = "OPENPAREN" -> match(expression(r, 0), "CLOSEPAREN")
           [] OTHER -> raise(r, "ParseError")

\* self.current_symbol.infix(left_term), left_term on the stack
infix(r) ==
    IF r.exc # "none" THEN r
    ELSE CASE token(r).type \in InfixOperators ->
                binary_op(expression(r, precedence(token(r).type)), token(r).type)
           [] token(r).type = "OPENBRACKET" -> subscript(match(expression(r, 0), "CLOSEBRACKET"))
           [] OTHER -> raise(r, "ParseError")

\* the `while precedence < self.next_symbol.precedence` of expression
RECURSIVE infix_loop(_, _)
infix_loop(r, min_precedence) ==
    IF r.exc # "none" THEN r
    ELSE IF next_is_none(r) THEN raise(r, "AttributeError")
    ELSE IF next_token(r).type \notin {"NUMBER", "IDENTIFIER", "STRING"} /\ token(r).type = "ERROR"
    THEN raise(r, "ParseError")
    ELSE IF min_precedence < precedence(next_token(r).type)
    THEN infix_loop(infix(advance_token(r)), min_precedence)
    ELSE r

\* _Parser.expression: the expression is left on the stack
expression(r, min_precedence) ==
    IF r.exc # "none" THEN r
    ELSE infix_loop(prefix(advance_token(r)), min_precedence)

\* the value a running method holds n places from the innermost
held(r, n) == r.stack[Len(r.stack) - n]

\* list.append of the value a resync block produced, if it produced one:
\* with n values held at entry of the block, the list innermost
append_if_parsed(r, n) ==
    IF r.exc # "none" THEN r
    ELSE IF Len(r.stack) = n + 1 THEN push(pop(r, 2), Append(second(r), top(r)))
    ELSE r

TypeMarks == {"INT", "FLOAT", "BOOL", "STRING_TYPE"}

var_decl_built(r) ==
    IF r.exc # "none" THEN r
    ELSE push(pop(r, 4), VarDecl(held(r, 3), held(r, 2), held(r, 1), held(r, 0)))

array_size(r) == IF r.exc # "none" THEN r ELSE push(r, token(r).token)

\* variable_declaration from `name = syntaxtree.Name(self.token.token)` on
var_decl_named(r) ==
    IF r.exc # "none" THEN r
    ELSE IF next_is_none(r) THEN raise(r, "AttributeError")
    ELSE IF next_token(r).type = "OPENBRACKET"
    THEN var_decl_built(
             match(array_size(match(advance_token(push(r, Name(token(r).token))), "NUMBER")),
                   "CLOSEBRACKET"))
    ELSE var_decl_built(push(push(r, Name(token(r).token)), None))

type_mark(r) ==
    IF r.exc # "none" THEN r
    ELSE IF token(r).type \in TypeMarks THEN push(r, token(r).type)
    ELSE raise(r, "ParseError")

\* _Parser.variable_declaration
variable_declaration(r) ==
    var_decl_named(match(type_mark(consume_optional_token(r, "GLOBAL")), "IDENTIFIER"))

param_built(r) ==
    IF r.exc # "none" THEN r
    ELSE IF token(r).type \notin {"IN", "OUT"} THEN raise(r, "ParseError")
    ELSE push(pop(r, 1), Param(top(r), token(r).type))

\* _Parser.parameter
parameter(r) == param_built(advance_token(variable_declaration(advance_token(r))))

RECURSIVE more_parameters(_)
more_parameters(r) ==
    IF r.exc # "none" THEN r
    ELSE IF next_is_none(r) THEN raise(r, "AttributeError")
    ELSE IF next_token(r).type = "COMMA"
    THEN more_parameters(append_if_parsed(parameter(advance_token(r)), Len(r.stack)))
    ELSE r

\* the parameter list of procedure_declaration, the list left on the stack
parameters(r) ==
    IF r.exc # "none" THEN r
    ELSE IF next_is_none(r) THEN raise(r, "AttributeError")
    ELSE IF next_token(r).type # "CLOSEPAREN"
    THEN more_parameters(append_if_parsed(parameter(push(r, <<>>)), Len(r.stack) + 1))
    ELSE push(r, <<>>)

RECURSIVE declarations(_)
RECURSIVE statements(_)

name_held(r) == IF r.exc # "none" THEN r ELSE push(r, Name(token(r).token))

proc_decl_built(r) ==
    IF r.exc # "none" THEN r
    ELSE push(pop(r, 5),
              ProcDecl(held(r, 4), held(r, 3), held(r, 2), held(r, 1), held(r, 0)))

procedure_keyword(r) ==
    IF r.exc # "none" THEN r
    ELSE IF token(r).type # "PROCEDURE" THEN raise(r, "ParseError")
    ELSE r

\* _Parser.procedure_declaration
procedure_declaration(r) ==
    proc_decl_built(
        match(match(statements(match(declarations(match(parameters(match(name_held(
            match(procedure_keyword(consume_optional_token(r, "GLOBAL")), "IDENTIFIER")),
            "OPENPAREN")), "CLOSEPAREN")), "BEGIN")), "END"), "PROCEDURE"))

\* declaration, the token advanced
declaration_at(r) ==
    IF r.exc # "none" THEN r
    ELSE IF token(r).type = "PROCEDURE" THEN procedure_declaration(r)
    ELSE IF next_is_none(r) THEN raise(r, "AttributeError")
    ELSE IF next_token(r).type = "PROCEDURE" THEN procedure_declaration(r)
    ELSE variable_declaration(r)

\* _Parser.declaration
declaration(r) == declaration_at(advance_token(r))

\* the `while` of declarations
RECURSIVE declarations_loop(_)
declarations_loop(r) ==
    IF r.exc # "none" THEN r
    ELSE IF next_is_none(r) THEN raise(r, "AttributeError")
    ELSE IF next_token(r).type \in {"BEGIN", "EOF"} THEN r
    ELSE declarations_loop(
             match(append_if_parsed(resync_point(declaration(r), r.stack), Len(r.stack)),
                   "SEMICOLON"))

\* _Parser.declarations: the list is left on the stack
declarations(r) == IF r.exc # "none" THEN r ELSE declarations_loop(push(r, <<>>))

call_built(r) ==
    IF r.exc # "none" THEN r ELSE push(pop(r, 2), Call(second(r), top(r)))

RECURSIVE more_arguments(_)
more_arguments(r) ==
    IF r.exc # "none" THEN r
    ELSE IF next_is_none(r) THEN raise(r, "AttributeError")
    ELSE IF next_token(r).type = "COMMA"
    THEN more_arguments(append_if_parsed(expression(advance_token(r), 0), Len(r.stack)))
    ELSE r

arguments(r) ==
    IF r.exc # "none" THEN r
    ELSE IF next_is_none(r) THEN raise(r, "AttributeError")
    ELSE IF next_token(r).type # "CLOSEPAREN"
    THEN more_arguments(append_if_parsed(expression(push(r, <<>>), 0), Len(r.stack) + 1))
    ELSE push(r, <<>>)

\* _Parser.procedure_call
procedure_call(r) ==
    call_built(match(arguments(match(name_held(r), "OPENPAREN")), "CLOSEPAREN"))

assign_built(r) ==
    IF r.exc # "none" THEN r ELSE push(pop(r, 2), Assign(second(r), top(r)))

\* _Parser.assignment_statement
assignment_statement(r) ==
    IF r.exc # "none" THEN r
    ELSE IF token(r).type # "IDENTIFIER" THEN raise(r, "ParseError")
    ELSE assign_built(expression(match(name_held(r), "ASSIGN"), 0))

if_built(r) ==
    IF r.exc # "none" THEN r
    ELSE push(pop(r, 3), If(held(r, 2), held(r, 1), held(r, 0)))

\* if_statement after its else block, entered with n values held: `orelse`
\* is unbound when the block ended in a ParseError
if_orelse(r, n) ==
    IF r.exc # "none" THEN r
    ELSE IF Len(r.stack) = n THEN raise(r, "UnboundLocalError")
    ELSE IF Len(top(r)) = 0 THEN raise(r, "ParseError")
    ELSE r

if_else(r) ==
    IF r.exc # "none" THEN r
    ELSE if_orelse(resync_point(statements(r), r.stack), Len(r.stack))

\* if_statement after its then block, entered with n values held
if_body(r, n) ==
    IF r.exc # "none" THEN r
    ELSE IF Len(r.stack) = n THEN raise(r, "UnboundLocalError")
    ELSE IF Len(top(r)) = 0 THEN raise(r, "ParseError")
    ELSE IF next_is_none(r) THEN raise(r, "AttributeError")
    ELSE IF next_token(r).type = "ELSE" THEN if_else(advance_token(r))
    ELSE push(r, <<>>)

if_then(r) ==
    IF r.exc # "none" THEN r
    ELSE if_body(resync_point(statements(r), r.stack), Len(r.stack))

\* _Parser.if_statement
if_statement(r) ==
    if_built(match(match(
        if_then(match(match(expression(match(r, "OPENPAREN"), 0), "CLOSEPAREN"), "THEN")),
        "END"), "IF"))

for_built(r) ==
    IF r.exc # "none" THEN r
    ELSE push(pop(r, 3), For(held(r, 2), held(r, 1), held(r, 0)))

\* _Parser.for_statement
for_statement(r) ==
    for_built(match(match(statements(match(expression(match(
        assignment_statement(advance_token(match(r, "OPENPAREN"))),
        "SEMICOLON"), 0), "CLOSEPAREN")), "END"), "FOR"))

\* statement, the token advanced
statement_at(r) ==
    IF r.exc # "none" THEN r
    ELSE CASE token(r).type = "IF" -> if_statement(r)
           [] token(r).type = "FOR" -> for_statement(r)
           [] token(r).type = "RETURN" -> push(r, Return)
           [] token(r).type = "IDENTIFIER" ->
                IF next_is_none(r) THEN raise(r, "AttributeError")
                ELSE IF next_token(r).type = "ASSIGN" THEN assignment_statement(r)
                ELSE IF next_token(r).type = "OPENPAREN" THEN procedure_call(r)
                ELSE raise(r, "ParseError")
           [] OTHER -> raise(r, "ParseError")

\* _Parser.statement
statement(r) == statement_at(advance_token(r))

\* the `while` of statements
RECURSIVE statements_loop(_)
statements_loop(r) ==
    IF r.exc # "none" THEN r
    ELSE IF next_is_none(r) THEN raise(r, "AttributeError")
    ELSE IF next_token(r).type \in {"END", "ELSE"} THEN r
    ELSE statements_loop(
             match(append_if_parsed(resync_point(statement(r), r.stack), Len(r.stack)),
                   "SEMICOLON"))

\* _Parser.statements: the list is left on the stack
statements(r) == IF r.exc # "none" THEN r ELSE statements_loop(push(r, <<>>))

\* the end of parse: the Program, or ParseFailedError for a ParseError or an
\* error recorded, or the exception that escapes
parsed(r) ==
    IF r.exc = "ParseError" THEN [outcome |-> "ParseFailedError", node |-> None]
    ELSE IF r.exc # "none" THEN [outcome |-> r.exc, node |-> None]
    ELSE IF r.error_encountered THEN [outcome |-> "ParseFailedError", node |-> None]
    ELSE [outcome |-> "Program", node |-> Program(held(r, 2), held(r, 1), held(r, 0))]

\* _Parser.parse
parse(r) ==
    parsed(match(match(statements(match(declarations(match(name_held(
        match(match(r, "PROGRAM"), "IDENTIFIER")), "IS")), "BEGIN")), "END"), "PROGRAM"))

\* parser.parse_tokens
parse_tokens(token_stream) == parse(NewParser(token_stream))

(***************************************************************************)
(* Parsing token streams: `program p is`, a few tokens and EOF, and every  *)
(* truncation of some programs.                                            *)
(***************************************************************************)
MaxBodyLen == 4

Lexeme(type) ==
    CASE type = "IDENTIFIER" -> <<"a">>
      [] type = "NUMBER" -> <<"1">>
      [] OTHER -> <<>>

\* the tokens of a sequence of token types
Toks(types) == [i \in DOMAIN types |-> Tok(types[i], Lexeme(types[i]))]

ParseAlphabet ==
    {"BEGIN", "END", "PROGRAM", "SEMICOLON", "RETURN", "IDENTIFIER", "ASSIGN", "NUMBER",
     "IF", "INT"}

Header == <<"PROGRAM", "IDENTIFIER", "IS">>

SamplePrograms ==
    {Header \o <<"INT", "IDENTIFIER", "SEMICOLON", "BEGIN", "IDENTIFIER", "ASSIGN", "NUMBER",
                 "PLUS", "NUMBER", "SEMICOLON", "END", "PROGRAM">>,
     Header \o <<"BEGIN", "IF", "OPENPAREN", "IDENTIFIER", "CLOSEPAREN", "THEN", "RETURN",
                 "SEMICOLON", "ELSE", "RETURN", "SEMICOLON", "END", "IF", "SEMICOLON", "END",
                 "PROGRAM">>,
     Header \o <<"BEGIN", "IF", "OPENPAREN", "IDENTIFIER", "CLOSEPAREN", "THEN", "RETURN",
                 "END", "IF", "SEMICOLON", "END", "PROGRAM">>,
     Header \o <<"GLOBAL", "PROCEDURE", "IDENTIFIER", "OPENPAREN", "INT", "IDENTIFIER",
                 "OPENBRACKET", "NUMBER", "CLOSEBRACKET", "IN", "COMMA", "FLOAT", "IDENTIFIER",
                 "OUT", "CLOSEPAREN", "BEGIN", "END", "PROCEDURE", "SEMICOLON", "BEGIN",
                 "IDENTIFIER", "OPENPAREN", "NUMBER", "COMMA", "IDENTIFIER", "CLOSEPAREN",
                 "SEMICOLON", "END", "PROGRAM">>,
     Header \o <<"BEGIN", "FOR", "OPENPAREN", "IDENTIFIER", "ASSIGN", "NUMBER", "SEMICOLON",
                 "IDENTIFIER", "LT", "NUMBER", "CLOSEPAREN", "RETURN", "SEMICOLON", "END",
                 "FOR", "SEMICOLON", "END", "PROGRAM">>}

Truncations(types) == {SubSeq(types, 1, k) : k \in 0..Len(types)}

ParseInputs(n) ==
    {Toks(Header \o body \o <<"EOF">>) : body \in SeqsUpTo(ParseAlphabet, n)}
        \cup {Toks(t \o <<"EOF">>) : t \in UNION {Truncations(s) : s \in SamplePrograms}}

InitParse ==
    /\ phase = "parse"
    /\ ScanIdle
    /\ input \in ParseInputs(MaxBodyLen)
    /\ result = None

\* parser.parse_tokens(input)
ParseTokens ==
    /\ phase = "parse" /\ result = None
    /\ result' = parse_tokens(input)
    /\ UNCHANGED <<phase, scanVars, input>>

NextParse == ParseTokens
SpecParse == InitParse /\ [][NextParse]_vars

ParseDone == phase = "parse" /\ result # None

\* C2: for a token stream that ends with EOF, parse_tokens returns a Program
\* or fails with ParseFailedError; no other exception escapes.
C2_ParseReturnsOrFails ==
    ParseDone => result.outcome \in {"Program", "ParseFailedError"}

(***************************************************************************)
(* Parsing expressions: the well-formed token sequences of bounded length  *)
(* over names, numbers, binary and prefix operators and parentheses, each  *)
(* parsed as the value of `a := <expression> ;`.                           *)
(***************************************************************************)
MaxExprLen == 5

Primaries == {"IDENTIFIER", "NUMBER"}
ExprBinary == {"AND", "PLUS", "MINUS", "LT", "MULTIPLY", "DIVIDE"}
ExprPrefix == {"NOT", "MINUS"}

\* the sequences of n token types that complete a well-formed expression, an
\* operand or an operator expected next, inside depth open parentheses
RECURSIVE Completions(_, _, _)
Completions(n, operand, depth) ==
    IF n = 0 THEN (IF ~operand /\ depth = 0 THEN {<<>>} ELSE {})
    ELSE IF depth > n THEN {}
    ELSE IF operand
    THEN {<<t>> \o s : t \in ExprPrefix, s \in Completions(n - 1, TRUE, depth)}
            \cup {<<"OPENPAREN">> \o s : s \in Completions(n - 1, TRUE, depth + 1)}
            \cup {<<t>> \o s : t \in Primaries, s \in Completions(n - 1, FALSE, depth)}
    ELSE {<<t>> \o s : t \in ExprBinary, s \in Completions(n - 1, TRUE, depth)}
            \cup (IF depth > 0
                  THEN {<<"CLOSEPAREN">> \o s : s \in Completions(n - 1, FALSE, depth - 1)}
                  ELSE {})

WellFormed(len) == UNION {Completions(n, TRUE, 0) : n \in 1..len}

\* - a * b     and     2 * (1 + 3)
MinusATimesB ==
    <<Tok("MINUS", <<>>), Tok("IDENTIFIER", <<"a">>), Tok("MULTIPLY", <<>>),
      Tok("IDENTIFIER", <<"b">>)>>
TwoTimesSum ==
    <<Tok("NUMBER", <<"2">>), Tok("MULTIPLY", <<>>), Tok("OPENPAREN", <<>>),
      Tok("NUMBER", <<"1">>), Tok("PLUS", <<>>), Tok("NUMBER", <<"3">>),
      Tok("CLOSEPAREN", <<>>)>>

ExprInputs(len) == {Toks(s) : s \in WellFormed(len)} \cup {MinusATimesB, TwoTimesSum}

InitExpr ==
    /\ phase = "expr"
    /\ ScanIdle
    /\ input \in ExprInputs(MaxExprLen)
    /\ result = None

\* the parser of `a := <input> ;` where assignment_statement calls expression
AtAssign(toks) ==
    [NewParser(Toks(<<"IDENTIFIER", "ASSIGN">>) \o toks \o Toks(<<"SEMICOLON", "EOF">>))
        EXCEPT !.i = 2]

expression_parsed(r) ==
    [exc |-> r.exc, node |-> IF r.exc = "none" THEN top(r) ELSE None, i |-> r.i]

\* self.expression() on the input
Expression ==
    /\ phase = "expr" /\ result = None
    /\ result' = expression_parsed(expression(AtAssign(input), 0))
    /\ UNCHANGED <<phase, scanVars, input>>

NextExpr == Expression
SpecExpr == InitExpr /\ [][NextExpr]_vars

ExprDone == phase = "expr" /\ result # None

(***************************************************************************)
(* The reference: an operator-precedence parser with an operand stack and  *)
(* an operator stack, over the documented table.                           *)
(***************************************************************************)
DocumentedBinary(type) ==
    CASE type \in {"OR", "AND"} -> 1
      [] type \in {"PLUS", "MINUS"} -> 2
      [] type \in {"LT", "LTE", "GT", "GTE", "EQUAL", "NOTEQUAL"} -> 3
      [] type \in {"MULTIPLY", "DIVIDE"} -> 4
DocumentedPrefix(type) ==
    CASE type = "NOT" -> 1
      [] type = "MINUS" -> 7

Operand(t) == IF t.type = "NUMBER" THEN Num(t.token) ELSE Name(t.token)

\* the stacks after the innermost operator is applied
Applied(st) ==
    LET o == st.ops[Len(st.ops)]
        n == Len(st.out)
    IN  [ops |-> SubSeq(st.ops, 1, Len(st.ops) - 1),
         out |-> IF o.unary
                 THEN Append(SubSeq(st.out, 1, n - 1), UnaryOp(o.op, st.out[n]))
                 ELSE Append(SubSeq(st.out, 1, n - 2), BinaryOp(o.op, st.out[n - 1], st.out[n]))]

\* apply the operators above the innermost parenthesis that bind at least as
\* tightly as p
RECURSIVE Reduced(_, _)
Reduced(st, p) ==
    IF st.ops = <<>> THEN st
    ELSE IF st.ops[Len(st.ops)].op = "OPENPAREN" THEN st
    ELSE IF st.ops[Len(st.ops)].prec < p THEN st
    ELSE Reduced(Applied(st), p)

Operator(op, prec, unary) == [op |-> op, prec |-> prec, unary |-> unary]
Pushed(st, o) == [st EXCEPT !.ops = Append(@, o)]
Closed(st) == [st EXCEPT !.ops = SubSeq(@, 1, Len(@) - 1)]

RECURSIVE Reference(_, _, _, _)
Reference(toks, i, st, operand) ==
    IF i > Len(toks) THEN Reduced(st, 0).out[1]
    ELSE IF operand
    THEN IF toks[i].type \in Primaries
         THEN Reference(toks, i + 1, [st EXCEPT !.out = Append(@, Operand(toks[i]))], FALSE)
         ELSE IF toks[i].type = "OPENPAREN"
         THEN Reference(toks, i + 1, Pushed(st, Operator("OPENPAREN", 0, FALSE)), TRUE)
         ELSE Reference(toks, i + 1,
                        Pushed(st, Operator(toks[i].type, DocumentedPrefix(toks[i].type), TRUE)),
                        TRUE)
    ELSE IF toks[i].type = "CLOSEPAREN"
         THEN Reference(toks, i + 1, Closed(Reduced(st, 0)), FALSE)
         ELSE Reference(toks, i + 1,
                        Pushed(Reduced(st, DocumentedBinary(toks[i].type)),
                               Operator(toks[i].type, DocumentedBinary(toks[i].type), FALSE)),
                        TRUE)

ReferenceTree(toks) == Reference(toks, 1, [ops |-> <<>>, out |-> <<>>], TRUE)

\* C3: for every well-formed token sequence, expression() returns the tree of
\* the reference precedence parser over the documented table (or/and 1,
\* binary +/- 2, comparisons 3, * and / 4, prefix not 1, prefix minus 7), the
\* whole sequence consumed; `-a * b` is BinaryOp(*, UnaryOp(-, a), b) and
\* `2 * (1 + 3)` is BinaryOp(*, 2, BinaryOp(+, 1, 3)).
C3_ExpressionAgreesWithReference ==
    ExprDone =>
        /\ result.exc = "none"
        /\ result.i = Len(input) + 2
        /\ result.node = ReferenceTree(input)
        /\ input = MinusATimesB =>
              result.node = BinaryOp("MULTIPLY", UnaryOp("MINUS", Name(<<"a">>)), Name(<<"b">>))
        /\ input = TwoTimesSum =>
              result.node = BinaryOp("MULTIPLY", Num(<<"2">>),
                                     BinaryOp("PLUS", Num(<<"1">>), Num(<<"3">>)))

C3_MinusATimesBParsed ==
    /\ ExprDone
    /\ input = MinusATimesB
    /\ result.node = BinaryOp("MULTIPLY", UnaryOp("MINUS", Name(<<"a">>)), Name(<<"b">>))

(***************************************************************************)
(* Constant propagation (src/src/optimizer.py, ConstantPropagator).  The   *)
(* propagator is a TreeMutator: a visit function returns the node that     *)
(* replaces the one visited, and visit_children sets modified_tree when a  *)
(* child is replaced by a node that differs from it.  Nodes are mutated in *)
(* place, so a visit that returns its own node never sets the flag; only a *)
(* fold, which returns a new Num, does (`fresh`).                          *)
(***************************************************************************)
\* ConstantPropagator.__init__
NewPropagator ==
    [global_scope |-> EmptyScope, scopes |-> <<EmptyScope>>,
     stop_propagation |-> 0, modified_tree |-> FALSE]

\* the outcome of a mutator's visit: the mutator, the node returned, the
\* exception that escaped, and whether the node returned is a new object
Mutated(m, node, exc, fresh) == [m |-> m, node |-> node, exc |-> exc, fresh |-> fresh]

\* `if original_field != new_field: self.modified_tree = True`
set_modified(m, fresh) == IF fresh THEN [m EXCEPT !.modified_tree = TRUE] ELSE m

\* ConstantPropagator.define_variable
cp_define_variable(m, name, value, is_global) ==
    IF is_global THEN [m EXCEPT !.global_scope = (name.id :> value) @@ @]
    ELSE [m EXCEPT !.scopes[Len(m.scopes)] = (name.id :> value) @@ @]

\* ConstantPropagator.get_var: the innermost scope, then the global one, then
\* None (with a warning printed once)
cp_get_var(m, name) ==
    LET key == IF name.kind = "Subscript" THEN name.name.id ELSE name.id
        local == m.scopes[Len(m.scopes)]
    IN  IF key \in DOMAIN local THEN local[key]
        ELSE IF key \in DOMAIN m.global_scope THEN m.global_scope[key]
        ELSE None

\* ConstantPropagator.get_const
cp_get_const(m, node) ==
    IF node.kind = "Num" THEN node.n
    ELSE IF node.kind = "Name" /\ cp_get_var(m, node).kind = "Num" THEN cp_get_var(m, node).n
    ELSE NoConst

\* ConstantFolder.is_literal
is_literal(node) == node.kind \in {"Num", "Str"}

\* what visit_binary_op / visit_unary_op return once eval has run (f)
cp_folded(m, node, f) ==
    IF f.exc # "none" THEN Mutated(m, node, f.exc, FALSE)
    ELSE Mutated(m, f.node, "none", TRUE)

\* visit_binary_op after visit_children, with the propagator's get_const
cp_fold_binary_op(m, node) ==
    IF cp_get_const(m, node.left) # NoConst /\ cp_get_const(m, node.right) # NoConst
    THEN cp_folded(m, node,
             FoldBinaryOp([node EXCEPT !.left = Num(cp_get_const(m, node.left)),
                                       !.right = Num(cp_get_const(m, node.right))]))
    ELSE Mutated(m, node, "none", FALSE)

\* visit_unary_op after visit_children, with the propagator's get_const
cp_fold_unary_op(m, node) ==
    IF cp_get_const(m, node.operand) # NoConst
    THEN cp_folded(m, node,
             FoldUnaryOp([node EXCEPT !.operand = Num(cp_get_const(m, node.operand))]))
    ELSE Mutated(m, node, "none", FALSE)

RECURSIVE cp_visit_expr(_, _)

cp_right_visited(node, r) ==
    IF r.exc # "none" THEN Mutated(r.m, node, r.exc, FALSE)
    ELSE cp_fold_binary_op(set_modified(r.m, r.fresh), [node EXCEPT !.right = r.node])

cp_left_visited(node, l) ==
    IF l.exc # "none" THEN Mutated(l.m, node, l.exc, FALSE)
    ELSE cp_right_visited([node EXCEPT !.left = l.node],
                          cp_visit_expr(set_modified(l.m, l.fresh), node.right))

cp_operand_visited(node, o) ==
    IF o.exc # "none" THEN Mutated(o.m, node, o.exc, FALSE)
    ELSE cp_fold_unary_op(set_modified(o.m, o.fresh), [node EXCEPT !.operand = o.node])

cp_index_visited(node, i) ==
    Mutated(set_modified(i.m, i.fresh), [node EXCEPT !.index = i.node], i.exc, FALSE)

\* TreeMutator._visit on an expression with the propagator's visit_functions:
\* BinaryOp and UnaryOp fold after their children; a Subscript has its index
\* visited; a Name, a Num or a Str is returned as it is
cp_visit_expr(m, node) ==
    CASE node.kind = "BinaryOp" -> cp_left_visited(node, cp_visit_expr(m, node.left))
      [] node.kind = "UnaryOp" -> cp_operand_visited(node, cp_visit_expr(m, node.operand))
      [] node.kind = "Subscript" -> cp_index_visited(node, cp_visit_expr(m, node.index))
      [] OTHER -> Mutated(m, node, "none", FALSE)

\* the key a node hashes to in a scope: a Name, a Num and a Str hash their
\* text; any other node is unhashable (Node.__hash__ = None)
Hashable(node) == node.kind \in {"Name", "Num", "Str"}
HashKey(node) == IF node.kind = "Name" THEN node.id ELSE IF node.kind = "Num" THEN node.n ELSE node.s

\* the end of ConstantPropagator.visit_assign: record or forget the target
cp_assign_recorded(m, node) ==
    IF node.target.kind # "Name" THEN m
    ELSE IF m.stop_propagation > 0 THEN cp_define_variable(m, node.target, None, FALSE)
    ELSE IF is_literal(node.value) THEN cp_define_variable(m, node.target, node.value, FALSE)
    ELSE m

cp_value_visited(node, v) ==
    IF v.exc # "none" THEN Mutated(v.m, node, v.exc, FALSE)
    ELSE Mutated(cp_assign_recorded(set_modified(v.m, v.fresh), [node EXCEPT !.value = v.node]),
                 [node EXCEPT !.value = v.node], "none", FALSE)

cp_target_visited(node, t) ==
    IF t.exc # "none" THEN Mutated(t.m, node, t.exc, FALSE)
    ELSE cp_value_visited([node EXCEPT !.target = t.node],
                          cp_visit_expr(set_modified(t.m, t.fresh), node.value))

\* ConstantPropagator.visit_assign
cp_visit_assign(m, node) == cp_target_visited(node, cp_visit_expr(m, node.target))

\* the loop of ConstantPropagator.visit_call from pair i on: an argument sent
\* to an out parameter is forgotten
RECURSIVE cp_unset_out(_, _, _, _)
cp_unset_out(m, decl, node, i) ==
    IF i > Len(decl.params) \/ i > Len(node.args) THEN Mutated(m, node, "none", FALSE)
    ELSE IF decl.params[i].direction # tokens_OUT THEN cp_unset_out(m, decl, node, i + 1)
    ELSE IF ~Hashable(node.args[i]) THEN Mutated(m, node, "TypeError", FALSE)
    ELSE cp_unset_out([m EXCEPT !.scopes[Len(m.scopes)] = (HashKey(node.args[i]) :> None) @@ @],
                      decl, node, i + 1)

\* ConstantPropagator.visit_call; `decl.params` on what get_var returned
cp_visit_call(m, node) ==
    IF cp_get_var(m, node.func).kind # "ProcDecl" THEN Mutated(m, node, "AttributeError", FALSE)
    ELSE cp_unset_out(m, cp_get_var(m, node.func), node, 1)

RECURSIVE cp_visit(_, _)
RECURSIVE cp_visit_list(_, _, _)

cp_list_rest(r, nodes, i) ==
    IF r.exc # "none" THEN Mutated(r.m, nodes, r.exc, FALSE)
    ELSE cp_visit_list(r.m, [nodes EXCEPT ![i] = r.node], i + 1)

\* TreeMutator.visit_children on a list field from element i on; every visit
\* function of the propagator returns the statement or declaration it visited
cp_visit_list(m, nodes, i) ==
    IF i > Len(nodes) THEN Mutated(m, nodes, "none", FALSE)
    ELSE cp_list_rest(cp_visit(m, nodes[i]), nodes, i)

\* ConstantPropagator.visit_jump, field by field
cp_jump_left(r, node, field) ==
    IF r.exc # "none" THEN Mutated(r.m, node, r.exc, FALSE)
    ELSE Mutated([r.m EXCEPT !.stop_propagation = @ - 1],
                 [node EXCEPT ![field] = r.node], "none", FALSE)

cp_if_body_visited(node, b) ==
    IF b.exc # "none" THEN Mutated(b.m, node, b.exc, FALSE)
    ELSE cp_jump_left(cp_visit_list(b.m, node.orelse, 1), [node EXCEPT !.body = b.node], "orelse")

cp_if_test_visited(node, t) ==
    IF t.exc # "none" THEN Mutated(t.m, node, t.exc, FALSE)
    ELSE cp_if_body_visited([node EXCEPT !.test = t.node],
                            cp_visit_list(set_modified(t.m, t.fresh), node.body, 1))

cp_for_test_visited(node, t) ==
    IF t.exc # "none" THEN Mutated(t.m, node, t.exc, FALSE)
    ELSE cp_jump_left(cp_visit_list(set_modified(t.m, t.fresh), node.body, 1),
                      [node EXCEPT !.test = t.node], "body")

cp_for_assignment_visited(node, a) ==
    IF a.exc # "none" THEN Mutated(a.m, node, a.exc, FALSE)
    ELSE cp_for_test_visited([node EXCEPT !.assignment = a.node], cp_visit_expr(a.m, node.test))

cp_visit_jump(m, node) ==
    IF node.kind = "If"
    THEN cp_if_test_visited(node, cp_visit_expr([m EXCEPT !.stop_propagation = @ + 1], node.test))
    ELSE cp_for_assignment_visited(node,
             cp_visit_assign([m EXCEPT !.stop_propagation = @ + 1], node.assignment))

\* `for decl in node.decls: if isinstance(decl, ProcDecl): define_variable(...)`
RECURSIVE cp_define_procedures(_, _, _, _)
cp_define_procedures(m, decls, i, atTop) ==
    IF i > Len(decls) THEN m
    ELSE cp_define_procedures(
             IF decls[i].kind = "ProcDecl"
             THEN cp_define_variable(m, decls[i].name, decls[i], atTop /\ decls[i].is_global)
             ELSE m,
             decls, i + 1, atTop)

\* `for param in node.params: self.define_variable(param.var_decl.name, None)`
RECURSIVE cp_define_parameters(_, _, _)
cp_define_parameters(m, params, i) ==
    IF i > Len(params) THEN m
    ELSE cp_define_parameters(cp_define_variable(m, params[i].var_decl.name, None, FALSE),
                              params, i + 1)

cp_block_body_visited(node, b, isProc) ==
    IF b.exc # "none" THEN Mutated(b.m, node, b.exc, FALSE)
    ELSE Mutated(IF isProc THEN [b.m EXCEPT !.scopes = SubSeq(@, 1, Len(@) - 1)] ELSE b.m,
                 [node EXCEPT !.body = b.node], "none", FALSE)

cp_block_decls_visited(node, d, isProc) ==
    IF d.exc # "none" THEN Mutated(d.m, node, d.exc, FALSE)
    ELSE cp_block_body_visited([node EXCEPT !.decls = d.node],
                               cp_visit_list(d.m, node.body, 1), isProc)

\* ConstantPropagator.visit_procdecl
cp_visit_procdecl(m, node) ==
    cp_block_decls_visited(node,
        cp_visit_list(
            cp_define_procedures(
                cp_define_parameters(
                    cp_define_variable([m EXCEPT !.scopes = Append(@, EmptyScope)],
                                       node.name, node, FALSE),
                    node.params, 1),
                node.decls, 1, FALSE),
            node.decls, 1),
        TRUE)

\* ConstantPropagator.visit_program
cp_visit_program(m, node) ==
    cp_block_decls_visited(node,
        cp_visit_list(cp_define_procedures(m, node.decls, 1, TRUE), node.decls, 1),
        FALSE)

\* TreeMutator._visit with the propagator's visit_functions, on a statement,
\* a declaration or the program; a VarDecl and the RETURN of a body are
\* returned as they are
cp_visit(m, node) ==
    CASE node.kind = "Program" -> cp_visit_program(m, node)
      [] node.kind = "ProcDecl" -> cp_visit_procdecl(m, node)
      [] node.kind = "Assign" -> cp_visit_assign(m, node)
      [] node.kind \in {"If", "For"} -> cp_visit_jump(m, node)
      [] node.kind = "Call" -> cp_visit_call(m, node)
      [] OTHER -> Mutated(m, node, "none", FALSE)

\* ConstantPropagator().walk(ast)
ConstantPropagator(ast) == cp_visit(NewPropagator, ast)

(***************************************************************************)
(* Dead code elimination (src/src/optimizer.py, DeadCodeEliminator).  A    *)
(* scope maps an identifier to None, to ASSIGNED or REFERENCED, or, for a  *)
(* procedure, to the pair (decl, None or REFERENCED).  Bodies and          *)
(* declaration lists are walked last to first by walk_body, which assigns  *)
(* the new list without touching modified_tree; only visit_children sets   *)
(* that flag, and the eliminator reaches visit_children on expressions     *)
(* only, where visit_name returns the Name it was given.                   *)
(***************************************************************************)
ASSIGNED == 1
REFERENCED == 2

Mark(v) == [kind |-> "int", v |-> v]
Pair(decl, flag) == [kind |-> "tuple", decl |-> decl, flag |-> flag]

\* DeadCodeEliminator.__init__
NewEliminator == [global_scope |-> EmptyScope, scopes |-> <<>>, modified_tree |-> FALSE]

\* what a visit function of the eliminator returns: a node ("node"), a list
\* of statements ("list") or None ("none")
Eliminated(d, ret, value, exc) == [d |-> d, ret |-> ret, value |-> value, exc |-> exc]

\* DeadCodeEliminator.define_var
define_var(d, key, value, is_global) ==
    IF is_global THEN [d EXCEPT !.global_scope = (key :> value) @@ @]
    ELSE [d EXCEPT !.scopes[Len(d.scopes)] = (key :> value) @@ @]

\* DeadCodeEliminator.get_var
dce_get_var(d, name) ==
    LET key == IF name.kind = "Subscript" THEN name.name.id ELSE name.id
        local == d.scopes[Len(d.scopes)]
    IN  IF key \in DOMAIN local THEN local[key]
        ELSE IF key \in DOMAIN d.global_scope THEN d.global_scope[key]
        ELSE None

\* TreeMutator._visit on an expression with the eliminator's visit_functions:
\* visit_name marks every Name in it REFERENCED in the innermost scope
RECURSIVE dce_visit_expr(_, _)
dce_visit_expr(d, node) ==
    CASE node.kind = "Name" -> define_var(d, node.id, Mark(REFERENCED), FALSE)
      [] node.kind = "BinaryOp" -> dce_visit_expr(dce_visit_expr(d, node.left), node.right)
      [] node.kind = "UnaryOp" -> dce_visit_expr(d, node.operand)
      [] node.kind = "Subscript" -> dce_visit_expr(dce_visit_expr(d, node.name), node.index)
      [] OTHER -> d

\* DeadCodeEliminator.visit_vardecl
visit_vardecl(d, node) ==
    IF dce_get_var(d, node.name) = None THEN Eliminated(d, "none", None, "none")
    ELSE Eliminated(d, "node", node, "none")

\* DeadCodeEliminator.visit_assign
dce_visit_assign(d, node) ==
    IF dce_get_var(d, node.target) = Mark(REFERENCED)
    THEN IF ~Hashable(node.target) THEN Eliminated(d, "node", node, "TypeError")
         ELSE Eliminated(define_var(d, HashKey(node.target), Mark(ASSIGNED), FALSE),
                         "node", node, "none")
    ELSE Eliminated(d, "none", None, "none")

\* the loop of DeadCodeEliminator.visit_call from pair i on
RECURSIVE dce_mark_arguments(_, _, _, _)
dce_mark_arguments(d, decl, node, i) ==
    IF i > Len(node.args) \/ i > Len(decl.params) THEN d
    ELSE dce_mark_arguments(
             IF node.args[i].kind = "Name"
             THEN define_var(d, node.args[i].id,
                             IF decl.params[i].direction = tokens_IN
                             THEN Mark(REFERENCED) ELSE Mark(ASSIGNED), FALSE)
             ELSE d,
             decl, node, i + 1)

\* DeadCodeEliminator.visit_call; `self.get_var(node.func)[0]` needs a pair
dce_visit_call(d, node) ==
    IF dce_get_var(d, node.func).kind # "tuple" THEN Eliminated(d, "node", node, "TypeError")
    ELSE Eliminated(
             dce_mark_arguments(
                 define_var(d, node.func.id,
                            Pair(dce_get_var(d, node.func).decl, Mark(REFERENCED)), FALSE),
                 dce_get_var(d, node.func).decl, node, 1),
             "node", node, "none")

RECURSIVE dce_visit(_, _)
RECURSIVE walk_body(_, _, _, _)

\* walk_body once the visit of element i has returned (r)
walk_body_rest(r, nodes, i, new_body) ==
    IF r.exc # "none" THEN Eliminated(r.d, "list", new_body, r.exc)
    ELSE walk_body(r.d, nodes, i - 1,
                   IF r.ret = "none" THEN new_body
                   ELSE IF r.ret = "list" THEN r.value \o new_body
                   ELSE <<r.value>> \o new_body)

\* DeadCodeEliminator.walk_body: `for child in reversed(...)` from element i
\* down; the value is the list setattr stores
walk_body(d, nodes, i, new_body) ==
    IF i = 0 THEN Eliminated(d, "list", new_body, "none")
    ELSE walk_body_rest(dce_visit(d, nodes[i]), nodes, i, new_body)

\* visit_if on a constant test: the walked branch itself is returned
dce_branch_taken(b) == Eliminated(b.d, "list", b.value, b.exc)

dce_if_body_walked(node, b) ==
    IF b.exc # "none" THEN Eliminated(b.d, "node", node, b.exc)
    ELSE Eliminated(dce_visit_expr(b.d, node.test), "node", [node EXCEPT !.body = b.value], "none")

dce_if_orelse_walked(node, e) ==
    IF e.exc # "none" THEN Eliminated(e.d, "node", node, e.exc)
    ELSE dce_if_body_walked([node EXCEPT !.orelse = e.value],
                            walk_body(e.d, node.body, Len(node.body), <<>>))

\* visit_if without its two constant-test cases: every If is walked and kept
visit_if_keeping_constant_tests(d, node) ==
    IF node.body = <<>> /\ node.orelse = <<>> THEN Eliminated(d, "none", None, "none")
    ELSE dce_if_orelse_walked(node, walk_body(d, node.orelse, Len(node.orelse), <<>>))

\* DeadCodeEliminator.visit_if
visit_if(d, node) ==
    IF node.test.kind = "Num" /\ node.test.n = <<"1">>
    THEN dce_branch_taken(walk_body(d, node.body, Len(node.body), <<>>))
    ELSE IF node.test.kind = "Num" /\ node.test.n = <<"0">>
    THEN dce_branch_taken(walk_body(d, node.orelse, Len(node.orelse), <<>>))
    ELSE IF node.body = <<>> /\ node.orelse = <<>> THEN Eliminated(d, "none", None, "none")
    ELSE dce_if_orelse_walked(node, walk_body(d, node.orelse, Len(node.orelse), <<>>))

dce_for_body_walked(node, b) ==
    Eliminated(b.d, "node", IF b.exc = "none" THEN [node EXCEPT !.body = b.value] ELSE node, b.exc)

\* DeadCodeEliminator.visit_for
visit_for(d, node) ==
    IF node.test.kind = "Num" /\ node.test.n = <<"0">> THEN Eliminated(d, "none", None, "none")
    ELSE dce_for_body_walked(node,
             walk_body(dce_visit_expr(d, node.test), node.body, Len(node.body), <<>>))

\* `for decl in node.decls:` of visit_block from declaration i on
RECURSIVE dce_define_decls(_, _, _)
dce_define_decls(d, decls, i) ==
    IF i > Len(decls) THEN d
    ELSE dce_define_decls(
             IF decls[i].kind = "ProcDecl"
             THEN define_var(d, decls[i].name.id, Pair(decls[i], None), decls[i].is_global)
             ELSE define_var(d, decls[i].name.id, None, FALSE),
             decls, i + 1)

\* `del node.body[node.body.index(tokens.RETURN):]`
RECURSIVE UntilReturn(_)
UntilReturn(body) ==
    IF body = <<>> \/ Head(body) = Return THEN <<>>
    ELSE <<Head(body)>> \o UntilReturn(Tail(body))

dce_block_decls_walked(node, ds) ==
    IF ds.exc # "none" THEN Eliminated(ds.d, "node", node, ds.exc)
    ELSE Eliminated([ds.d EXCEPT !.scopes = SubSeq(@, 1, Len(@) - 1)], "node",
                    [node EXCEPT !.decls = ds.value, !.body = UntilReturn(node.body)], "none")

dce_block_body_walked(node, b) ==
    IF b.exc # "none" THEN Eliminated(b.d, "node", node, b.exc)
    ELSE dce_block_decls_walked([node EXCEPT !.body = b.value],
                                walk_body(b.d, node.decls, Len(node.decls), <<>>))

dce_block_entered(d, node) ==
    dce_block_body_walked(node,
        walk_body(dce_define_decls(d, node.decls, 1), node.body, Len(node.body), <<>>))

\* DeadCodeEliminator.visit_block, for a Program and for a ProcDecl;
\* `self.get_var(node.name)[1]` needs a pair
visit_block(d, node) ==
    IF node.kind = "ProcDecl" /\ dce_get_var(d, node.name).kind # "tuple"
    THEN Eliminated(d, "node", node, "TypeError")
    ELSE IF node.kind = "ProcDecl" /\ dce_get_var(d, node.name).flag = None
    THEN Eliminated(d, "none", None, "none")
    ELSE dce_block_entered(
             IF node.kind = "ProcDecl"
             THEN define_var([d EXCEPT !.scopes = Append(@, EmptyScope)],
                             node.name.id, Pair(node, None), FALSE)
             ELSE [d EXCEPT !.scopes = Append(@, EmptyScope)],
             node)

\* TreeMutator._visit with the eliminator's visit_functions, on a statement,
\* a declaration or the program; the RETURN of a body is returned as it is
dce_visit(d, node) ==
    CASE node.kind \in {"Program", "ProcDecl"} -> visit_block(d, node)
      [] node.kind = "VarDecl" -> visit_vardecl(d, node)
      [] node.kind = "Assign" -> dce_visit_assign(d, node)
      [] node.kind = "Call" -> dce_visit_call(d, node)
      [] node.kind = "If" -> visit_if(d, node)
      [] node.kind = "For" -> visit_for(d, node)
      [] OTHER -> Eliminated(d, "node", node, "none")

\* DeadCodeEliminator().walk(ast)
DeadCodeEliminator(ast) == dce_visit(NewEliminator, ast)

(***************************************************************************)
(* ConstantFolder over a whole tree: TreeMutator.visit_children visits the *)
(* Node fields and the list fields of a node in slot order; BinaryOp and   *)
(* UnaryOp are the folder's only visit functions.                          *)
(***************************************************************************)
\* the slots of a node class that hold a Node or a list (syntaxtree.py)
Slots(kind) ==
    CASE kind = "Program" -> <<"name", "decls", "body">>
      [] kind = "VarDecl" -> <<"name">>
      [] kind = "ProcDecl" -> <<"name", "params", "decls", "body">>
      [] kind = "Param" -> <<"var_decl">>
      [] kind = "Assign" -> <<"target", "value">>
      [] kind = "If" -> <<"test", "body", "orelse">>
      [] kind = "For" -> <<"assignment", "test", "body">>
      [] kind = "Call" -> <<"func", "args">>
      [] kind = "Subscript" -> <<"name", "index">>
      [] OTHER -> <<>>
ListSlots == {"decls", "body", "params", "orelse", "args"}

RECURSIVE fold_walk(_)
RECURSIVE fold_slots(_, _, _)
RECURSIVE fold_elements(_, _, _)

fold_element_visited(r, nodes, i, modified) ==
    IF r.exc # "none" THEN Visited(nodes, modified \/ r.modified, r.exc)
    ELSE fold_elements([nodes EXCEPT ![i] = r.node], i + 1,
                       modified \/ r.modified \/ r.node.kind # nodes[i].kind)

\* `for child in original_field:` from element i on
fold_elements(nodes, i, modified) ==
    IF i > Len(nodes) THEN Visited(nodes, modified, "none")
    ELSE fold_element_visited(fold_walk(nodes[i]), nodes, i, modified)

fold_slot_visited(r, node, i, modified) ==
    IF r.exc # "none" THEN Visited(node, modified \/ r.modified, r.exc)
    ELSE fold_slots([node EXCEPT ![Slots(node.kind)[i]] = r.node], i + 1,
                    modified \/ r.modified
                        \/ (Slots(node.kind)[i] \notin ListSlots
                            /\ r.node.kind # node[Slots(node.kind)[i]].kind))

\* TreeMutator.visit_children from slot i on
fold_slots(node, i, modified) ==
    IF i > Len(Slots(node.kind)) THEN Visited(node, modified, "none")
    ELSE fold_slot_visited(
             IF Slots(node.kind)[i] \in ListSlots
             THEN fold_elements(node[Slots(node.kind)[i]], 1, FALSE)
             ELSE fold_walk(node[Slots(node.kind)[i]]),
             node, i, modified)

\* TreeMutator._visit with the folder's visit_functions
fold_walk(node) ==
    IF node.kind \in {"BinaryOp", "UnaryOp"} THEN fold_visit(node)
    ELSE fold_slots(node, 1, FALSE)

\* ConstantFolder().walk(ast)
ConstantFolder(ast) == fold_walk(ast)

(***************************************************************************)
(* optimize_tree (src/src/optimizer.py): the programs it is run on, and    *)
(* one action per walk it performs.                                        *)
(***************************************************************************)
id_c == <<"c">>
id_h == <<"h">>
id_put == <<"p", "u", "t">>
Two == Num(<<"2">>)
Three == Num(<<"3">>)

\* global procedure put(int v in) begin end procedure;
ProcPut == ProcDecl(TRUE, Name(id_put), <<Param(Scalar(INT, id_v), tokens_IN)>>, <<>>, <<>>)
\* global procedure g() begin c := 1; end procedure;
OptProcG == ProcDecl(TRUE, Name(id_g), <<>>, <<>>, <<Assign(Name(id_c), One)>>)
\* procedure f() begin g(); end procedure;
OptProcF == ProcDecl(FALSE, Name(id_f), <<>>, <<>>, <<Call(Name(id_g), <<>>)>>)
\* procedure h() begin put(c); end procedure;
OptProcH == ProcDecl(FALSE, Name(id_h), <<>>, <<>>, <<Call(Name(id_put), <<Name(id_c)>>)>>)

\* int a; int b; global int c; and the four procedures
OptDecls ==
    <<Scalar(INT, id_a), Scalar(INT, id_b), VarDecl(TRUE, INT, Name(id_c), None),
      ProcPut, OptProcG, OptProcF, OptProcH>>
OptProgram(body) == Program(Name(id_p), OptDecls, body)

Put(arg) == Call(Name(id_put), <<arg>>)
OptStatements ==
    {Assign(Name(id_a), One),
     Assign(Name(id_b), Name(id_a)),
     Assign(Name(id_b), BinaryOp("+", One, Name(id_a))),
     Put(BinaryOp("+", Name(id_a), One)),
     Assign(Name(id_c), BinaryOp("/", One, Zero)),
     Call(Name(id_f), <<>>),
     Call(Name(id_h), <<>>),
     If(One, <<Put(One)>>, <<Put(Zero)>>),
     If(Zero, <<Assign(Name(id_b), One)>>, <<>>),
     If(BinaryOp("==", Name(id_a), One), <<Assign(Name(id_b), Two)>>, <<Assign(Name(id_b), Three)>>),
     For(Assign(Name(id_a), Zero), Zero, <<Put(Name(id_a))>>),
     For(Assign(Name(id_a), Zero), BinaryOp("<", Name(id_a), One), <<Put(Name(id_a))>>)}

\* bodies of at most n statements of OptStatements
RECURSIVE OptBodies(_)
OptBodies(n) ==
    IF n = 0 THEN {<<>>}
    ELSE OptBodies(n - 1)
            \cup {<<s>> \o b : s \in OptStatements, b \in {x \in OptBodies(n - 1) : Len(x) = n - 1}}

\* x := 1; if (x == 1) then <the chain one level deeper on the other variable>
\* end if; with put(1) in the innermost body
RECURSIVE NestChain(_, _)
NestChain(k, id) ==
    IF k = 0 THEN <<Put(One)>>
    ELSE <<Assign(Name(id), One),
           If(BinaryOp("==", Name(id), One),
              NestChain(k - 1, IF id = id_a THEN id_b ELSE id_a), <<>>)>>

MaxStmts == 2
MaxNest == 4
Levels == {0, 1, 2}

\* every body ends in put(b), so that b is live at the end of the program
OptTrees(n, k) ==
    {OptProgram(b \o <<Put(Name(id_b))>>) : b \in OptBodies(n)}
        \cup {OptProgram(NestChain(d, id_a)) : d \in 1..k}

OptInputs(n, k) ==
    {[ast |-> t, level |-> l] : t \in {x \in OptTrees(n, k) : tree_is_valid(x).valid}, l \in Levels}

\* `for i in xrange(3):`
LoopRounds == 3

\* result holds the position in optimize_tree (pc), the loop variable i, the
\* tree as mutated so far (ast), the tree the last walk started from
\* (before), the exception that ended the call, and the modified_tree flags
\* of the propagator and the eliminator of the current round.
OptState(pc, i, ast, before, exc, pm, em) ==
    [pc |-> pc, i |-> i, ast |-> ast, before |-> before, exc |-> exc,
     propagator_modified |-> pm, eliminator_modified |-> em]

InitOpt ==
    /\ phase = "optimize"
    /\ ScanIdle
    /\ input \in OptInputs(MaxStmts, MaxNest)
    /\ result = OptState("start", 0, input.ast, input.ast, "none", FALSE, FALSE)

\* `if level == 0: return`
ReturnLevel0 ==
    /\ phase = "optimize" /\ result.pc = "start" /\ input.level = 0
    /\ result' = [result EXCEPT !.pc = "done"]
    /\ UNCHANGED <<phase, scanVars, input>>

FolderWalked(r) ==
    OptState(IF r.exc = "none" THEN "done" ELSE "raised", 0, r.node, result.ast, r.exc,
             FALSE, FALSE)

\* `if level == 1: ConstantFolder().walk(ast)`
FolderWalk ==
    /\ phase = "optimize" /\ result.pc = "start" /\ input.level = 1
    /\ result' = FolderWalked(ConstantFolder(result.ast))
    /\ UNCHANGED <<phase, scanVars, input>>

PropagatorWalked(r) ==
    OptState(IF r.exc # "none" THEN "raised"
             ELSE IF result.pc = "start" THEN "propagated" ELSE "loop_propagated",
             result.i, r.node, result.ast, r.exc, r.m.modified_tree, FALSE)

\* `ConstantPropagator(print_errors=True).walk(ast)` before the loop and
\* `propagator.walk(ast)` inside it
PropagatorWalk ==
    /\ phase = "optimize" /\ result.pc \in {"start", "loop"} /\ input.level = 2
    /\ result' = PropagatorWalked(ConstantPropagator(result.ast))
    /\ UNCHANGED <<phase, scanVars, input>>

EliminatorWalked(r) ==
    IF r.exc # "none"
    THEN OptState("raised", result.i, result.ast, result.ast, r.exc,
                  result.propagator_modified, FALSE)
    ELSE IF result.pc = "propagated"
    THEN OptState("loop", 0, r.value, result.ast, "none", FALSE, FALSE)
    ELSE IF ~result.propagator_modified \/ ~r.d.modified_tree
    THEN OptState("done", result.i, r.value, result.ast, "none",
                  result.propagator_modified, r.d.modified_tree)
    ELSE IF result.i + 1 = LoopRounds
    THEN OptState("done", result.i, r.value, result.ast, "none",
                  result.propagator_modified, r.d.modified_tree)
    ELSE OptState("loop", result.i + 1, r.value, result.ast, "none", FALSE, FALSE)

\* `DeadCodeEliminator().walk(ast)` before the loop, and inside it
\* `eliminator.walk(ast)` with the test that leaves the loop
EliminatorWalk ==
    /\ phase = "optimize" /\ result.pc \in {"propagated", "loop_propagated"}
    /\ result' = EliminatorWalked(DeadCodeEliminator(result.ast))
    /\ UNCHANGED <<phase, scanVars, input>>

NextOpt == ReturnLevel0 \/ FolderWalk \/ PropagatorWalk \/ EliminatorWalk

SpecOpt == InitOpt /\ [][NextOpt]_vars

\* C11: optimize_tree never ends in an exception, whatever the valid tree
\* and the level.
C11_OptimizerNeverRaises == phase = "optimize" => result.pc # "raised"

\* one more round on a returned tree: ConstantPropagator().walk(ast), then
\* DeadCodeEliminator().walk(ast)
Eliminated_after(p) ==
    IF p.exc # "none" THEN [ast |-> p.node, exc |-> p.exc]
    ELSE [ast |-> DeadCodeEliminator(p.node).value, exc |-> DeadCodeEliminator(p.node).exc]
OneMoreRound(ast) == Eliminated_after(ConstantPropagator(ast))

\* C12: when optimize_tree(ast, 2) has returned, one more ConstantPropagator
\* walk followed by one more DeadCodeEliminator walk leaves the tree as it
\* is.
C12_Level2ReachesFixedPoint ==
    (phase = "optimize" /\ input.level = 2 /\ result.pc = "done")
        => OneMoreRound(result.ast) = [ast |-> result.ast, exc |-> "none"]

\* statement s may assign the variable id: an assignment to it, a branch or
\* loop holding one, or a call that is passed it or that can reach it as a
\* global
RECURSIVE AssignsTo(_, _, _)
AssignsTo(s, id, decls) ==
    CASE s.kind = "Assign" -> s.target = Name(id)
      [] s.kind = "If" ->
            \/ \E k \in 1..Len(s.body) : AssignsTo(s.body[k], id, decls)
            \/ \E k \in 1..Len(s.orelse) : AssignsTo(s.orelse[k], id, decls)
      [] s.kind = "For" ->
            \/ AssignsTo(s.assignment, id, decls)
            \/ \E k \in 1..Len(s.body) : AssignsTo(s.body[k], id, decls)
      [] s.kind = "Call" ->
            \/ \E k \in 1..Len(s.args) : s.args[k] = Name(id)
            \/ \E k \in 1..Len(decls) :
                  decls[k].kind = "VarDecl" /\ decls[k].name = Name(id) /\ decls[k].is_global
      [] OTHER -> FALSE

\* body[i] is 'id := <literal>' and nothing between i and j assigns id
ReachesRead(body, i, j, id, decls) ==
    /\ i < j
    /\ body[i].kind = "Assign" /\ body[i].target = Name(id) /\ is_literal(body[i].value)
    /\ \A k \in (i + 1)..(j - 1) : ~AssignsTo(body[k], id, decls)

WholeValueRead(s, id) == s.kind = "Assign" /\ s.value = Name(id)
OperandRead(s, id) ==
    /\ s.kind = "Assign" /\ s.value.kind = "BinaryOp"
    /\ \/ s.value.left = Name(id) /\ s.value.right.kind = "Num"
       \/ s.value.left.kind = "Num" /\ s.value.right = Name(id)

\* the value of s with the reads of id replaced by lit and then folded
Substituted(s, id, lit) ==
    IF s.value = Name(id) THEN lit
    ELSE FoldBinaryOp([s.value EXCEPT
                          !.left = IF @ = Name(id) THEN lit ELSE @,
                          !.right = IF @ = Name(id) THEN lit ELSE @]).node

PropagatedOnce == phase = "optimize" /\ input.level = 2 /\ result.pc = "propagated"

\* C13: after the first ConstantPropagator walk, a top-level read of a
\* variable whose last top-level assignment was a literal is replaced by
\* that literal, as the whole value of an assignment and as an operand of a
\* foldable operator.
C13_RecordedLiteralSubstituted ==
    PropagatedOnce =>
        \A i, j \in 1..Len(input.ast.body) : \A id \in {id_a, id_b, id_c} :
            (/\ ReachesRead(input.ast.body, i, j, id, input.ast.decls)
             /\ (WholeValueRead(input.ast.body[j], id) \/ OperandRead(input.ast.body[j], id)))
                => result.ast.body[j].value
                       = Substituted(input.ast.body[j], id, input.ast.body[i].value)

\* the variables a statement reads in its own expressions
ReadsOf(s) ==
    CASE s.kind = "Assign" ->
            NamesIn(s.value)
                \cup (IF s.target.kind = "Subscript" THEN NamesIn(s.target.index) ELSE {})
      [] s.kind = "Call" -> UNION {NamesIn(s.args[k]) : k \in 1..Len(s.args)}
      [] s.kind \in {"If", "For"} -> NamesIn(s.test)
      [] OTHER -> {}

\* None for the program body, and the procedures declared by the program
BlocksOf(prog) == {None} \cup {prog.decls[k] : k \in {n \in 1..Len(prog.decls) : prog.decls[n].kind = "ProcDecl"}}

\* in the block of proc, every variable read and every procedure called by a
\* statement has a declaration in the tree
BlockDeclared(prog, proc) ==
    \A s \in StmtsOf(BodyOf(prog, proc)) :
        /\ \A id \in ReadsOf(s) : Resolve(prog, proc, id) # None
        /\ s.kind = "Call" => Resolve(prog, proc, s.func.id) # None

\* a DeadCodeEliminator walk has just returned
EliminatorReturned ==
    phase = "optimize" /\ input.level = 2 /\ result.pc \in {"loop", "done"}

\* C14: after a DeadCodeEliminator walk, every variable read by a surviving
\* statement and every procedure called by a surviving Call still has its
\* declaration in the tree.
C14_SurvivorsStayDeclared ==
    EliminatorReturned => \A proc \in BlocksOf(result.ast) : BlockDeclared(result.ast, proc)

\* a body with every constant branch at its top level resolved by hand: an
\* If on Num("1") gives way to its then-body, an If on Num("0") to its
\* else-body, a For on Num("0") to nothing
RECURSIVE TakenBody(_)
TakenOf(s) ==
    IF s.kind = "If" /\ s.test = One THEN TakenBody(s.body)
    ELSE IF s.kind = "If" /\ s.test = Zero THEN TakenBody(s.orelse)
    ELSE IF s.kind = "For" /\ s.test = Zero THEN <<>>
    ELSE <<s>>
TakenBody(body) == IF body = <<>> THEN <<>> ELSE TakenOf(Head(body)) \o TakenBody(Tail(body))

ConstantBranch(s) ==
    \/ s.kind = "If" /\ s.test \in {One, Zero}
    \/ s.kind = "For" /\ s.test = Zero

\* C15: a DeadCodeEliminator walk leaves no If on Num("1") or Num("0") and no
\* For on Num("0") in any body, and its result is the result of walking the
\* tree in which each such statement of the program body was replaced by the
\* statements of the branch taken.
C15_ConstantBranchesResolved ==
    EliminatorReturned =>
        /\ \A proc \in BlocksOf(result.ast) :
              \A s \in StmtsOf(BodyOf(result.ast, proc)) : ~ConstantBranch(s)
        /\ result.ast
              = DeadCodeEliminator([result.before EXCEPT !.body = TakenBody(@)]).value

\* 'if (1) then put(1); else put(0); end if; if (0) then b := 1; end if;
\* put(b);' has been walked and 'put(1); put(b);' is left
C15_ThenBranchSpliced ==
    /\ EliminatorReturned
    /\ result.before.body = <<If(One, <<Put(One)>>, <<Put(Zero)>>),
                              If(Zero, <<Assign(Name(id_b), One)>>, <<>>), Put(Name(id_b))>>
    /\ result.ast.body = <<Put(One), Put(Name(id_b))>>

(***************************************************************************)
(* Code generation (src/src/codegenerator.py).  The generator's dispatch   *)
(* self.visit is the walker's _visit of src/src/syntaxtree.py.  A line of  *)
(* emitted C is a record: its kind (op) and its operands.  An operand is a *)
(* literal or a register; a memory location is an absolute address, an     *)
(* offset from FP or SP, or the address held in MM[FP + off] (an out       *)
(* parameter).  The programs generated hold int scalars only: no Str,      *)
(* Subscript or float path is modelled.                                    *)
(***************************************************************************)
Lit(n) == [k |-> "lit", v |-> DigitsToNat(n)]
Reg(r) == [k |-> "reg", r |-> r]
Abs(off) == [base |-> "abs", off |-> off]
FpOff(off) == [base |-> "fp", off |-> off]
SpOff(off) == [base |-> "sp", off |-> off]
Ind(off) == [base |-> "ind", off |-> off]

runtime_functions ==
    {<<"g", "e", "t", "B", "o", "o", "l">>, <<"g", "e", "t", "I", "n", "t", "e", "g", "e", "r">>,
     <<"g", "e", "t", "F", "l", "o", "a", "t">>, <<"g", "e", "t", "S", "t", "r", "i", "n", "g">>,
     <<"p", "u", "t", "B", "o", "o", "l">>, <<"p", "u", "t", "I", "n", "t", "e", "g", "e", "r">>,
     <<"p", "u", "t", "F", "l", "o", "a", "t">>, <<"p", "u", "t", "S", "t", "r", "i", "n", "g">>}

EmptyDict == [k \in {} |-> 0]

\* CodeGenerator.__init__; `dead` is not a field of the generator: it says
\* that the statement being visited follows a return in its body, and is
\* copied on every line written
NewGenerator ==
    [out |-> <<>>, register_assignements |-> <<>>,
     queue |-> {}, size |-> 0, max_size |-> 0,
     global_memory_locations |-> EmptyDict, fp_offsets |-> <<EmptyDict>>,
     proc_decls |-> <<EmptyScope>>, global_proc_decls |-> EmptyScope,
     current_procedure |-> None, label_counts |-> EmptyDict,
     val |-> None, exc |-> "none", dead |-> FALSE]

gen_raise(g, exc) == IF g.exc # "none" THEN g ELSE [g EXCEPT !.exc = exc]

\* CodeGenerator.write.  Beside what the line of C says, a line keeps what
\* the checks below need and the C does not show: `dead`; on the store of
\* an argument, its number `arg` `of` the pairs pushed; on the line
\* `FP = SP + n`, the `offsets` from FP the procedure uses for its parameters
write(g, instr) ==
    IF g.exc # "none" THEN g ELSE [g EXCEPT !.out = Append(@, [dead |-> g.dead] @@ instr)]

\* RegisterHeap.get: the register handed out, and the heap afterwards
SetMin(S) == CHOOSE x \in S : \A y \in S : x <= y
heap_top(g) == IF g.queue # {} THEN SetMin(g.queue) ELSE g.size
heap_get(g) ==
    IF g.queue # {} THEN [g EXCEPT !.queue = @ \ {SetMin(g.queue)}]
    ELSE [g EXCEPT !.size = @ + 1, !.max_size = IF g.size + 1 > @ THEN g.size + 1 ELSE @]
\* Heap.put
heap_put(g, reg) == [g EXCEPT !.queue = @ \cup {reg}]

\* CodeGenerator.allocated_register
allocated_register(node) == node.kind \in {"BinaryOp", "UnaryOp", "Subscript"}

Top(stack) == stack[Len(stack)]
Has(dict, key) == key \in DOMAIN dict

\* CodeGenerator.set_proc_decl
set_proc_decl(g, name, decl) ==
    IF decl.is_global THEN [g EXCEPT !.global_proc_decls = (name.id :> decl) @@ @]
    ELSE [g EXCEPT !.proc_decls[Len(g.proc_decls)] = (name.id :> decl) @@ @]

\* CodeGenerator.get_proc_decl: None stands for the KeyError
get_proc_decl(g, name) ==
    IF Has(g.global_proc_decls, name.id) THEN g.global_proc_decls[name.id]
    ELSE IF Has(Top(g.proc_decls), name.id) THEN Top(g.proc_decls)[name.id]
    ELSE None

\* CodeGenerator.create_call_label: the label, and the generator afterwards
LabelCount(g, title) == IF Has(g.label_counts, title) THEN g.label_counts[title] ELSE 0
\* a label of the emitted C: '<name>_<n>' for a counted label, '<name>' (n = -1)
\* for the label of a procedure or of the program
Label(name, n) == [name |-> name, n |-> n]
create_call_label(g, title) == Label(title, LabelCount(g, title))
label_counted(g, title) == [g EXCEPT !.label_counts = (title :> LabelCount(g, title) + 1) @@ @]

\* CodeGenerator.get_label (the declaration is known)
get_label(g, name) ==
    IF get_proc_decl(g, name).is_global THEN <<"__global_">> \o name.id ELSE name.id

\* the direction of the parameter called id of the current procedure
ParamDirection(decl, id) ==
    decl.params[CHOOSE i \in 1..Len(decl.params) : decl.params[i].var_decl.name.id = id].direction

\* CodeGenerator.get_memory_location: None stands for the KeyError
get_memory_location(g, name) ==
    IF Has(g.global_memory_locations, name.id) THEN Abs(g.global_memory_locations[name.id])
    ELSE IF ~Has(Top(g.fp_offsets), name.id) THEN None
    ELSE IF Top(g.fp_offsets)[name.id] < 0
    THEN IF g.current_procedure = None \/ get_proc_decl(g, g.current_procedure) = None THEN None
         ELSE IF ParamDirection(get_proc_decl(g, g.current_procedure), name.id) = tokens_OUT
         THEN Ind(Top(g.fp_offsets)[name.id])
         ELSE FpOff(Top(g.fp_offsets)[name.id])
    ELSE FpOff(Top(g.fp_offsets)[name.id])

\* register_assignements is kept in insertion order
Assigned(g, id) == \E i \in 1..Len(g.register_assignements) : g.register_assignements[i].id = id
AssignedReg(g, id) ==
    g.register_assignements[CHOOSE i \in 1..Len(g.register_assignements) :
                                g.register_assignements[i].id = id].reg

\* CodeGenerator.get_register: the register is left in val
register_loaded(g, name, reg) ==
    IF get_memory_location(g, name) = None THEN gen_raise(g, "KeyError")
    ELSE [write(g, [op |-> "load", r |-> reg, loc |-> get_memory_location(g, name)])
             EXCEPT !.register_assignements = Append(@, [id |-> name.id, reg |-> reg]),
                    !.val = Reg(reg)]
get_register(g, name) ==
    IF Assigned(g, name.id) THEN [g EXCEPT !.val = Reg(AssignedReg(g, name.id))]
    ELSE register_loaded(heap_get(g), name, heap_top(g))

\* CodeGenerator.store_variables over register_assignements from entry i on,
\* for the names that satisfy `live`
RECURSIVE store_variables(_, _, _)
store_variables(g, i, live) ==
    IF i > Len(g.register_assignements) \/ g.exc # "none" THEN g
    ELSE IF g.register_assignements[i].id \notin live THEN store_variables(g, i + 1, live)
    ELSE IF get_memory_location(g, Name(g.register_assignements[i].id)) = None
    THEN gen_raise(g, "KeyError")
    ELSE store_variables(
             write(g, [op |-> "store",
                       loc |-> get_memory_location(g, Name(g.register_assignements[i].id)),
                       v |-> Reg(g.register_assignements[i].reg)]),
             i + 1, live)
AssignedNames(g) == {g.register_assignements[i].id : i \in 1..Len(g.register_assignements)}

RECURSIVE gen_visit_expr(_, _)

\* visit_binop after both operands: free the temporaries, take outreg, write
binop_written(g, node, left, right, outreg) ==
    [write(IF node.node_type = BOOL
           THEN write(g, [op |-> "validateBooleanOp", a |-> left, b |-> right])
           ELSE g,
           [op |-> "binop", r |-> outreg, operator |-> node.op, a |-> left, b |-> right])
        EXCEPT !.val = Reg(outreg)]
binop_freed(g, node, left, right) ==
    binop_written(heap_get(g), node, left, right, heap_top(g))
binop_right_visited(g, node, left) ==
    binop_freed(IF allocated_register(node.left)
                THEN heap_put(IF allocated_register(node.right) THEN heap_put(g, g.val.r) ELSE g,
                              left.r)
                ELSE IF allocated_register(node.right) THEN heap_put(g, g.val.r) ELSE g,
                node, left, g.val)
binop_left_visited(g, node) ==
    IF g.exc # "none" THEN g ELSE binop_right_visited(gen_visit_expr(g, node.right), node, g.val)
\* CodeGenerator.visit_binop
visit_binop(g, node) == binop_left_visited(gen_visit_expr(g, node.left), node)

unaryop_written(g, node, value, outreg) ==
    [write(IF node.op = "not" /\ node.node_type = BOOL
           THEN write(g, [op |-> "validateBooleanOp", a |-> Lit(<<"0">>), b |-> value])
           ELSE g,
           [op |-> "unop", r |-> outreg,
            operator |-> IF node.op # "not" THEN node.op
                         ELSE IF node.node_type = BOOL THEN "!" ELSE "~",
            a |-> value])
        EXCEPT !.val = Reg(outreg)]
unaryop_freed(g, node, value) == unaryop_written(heap_get(g), node, value, heap_top(g))
unaryop_operand_visited(g, node) ==
    IF g.exc # "none" THEN g
    ELSE unaryop_freed(IF allocated_register(node.operand) THEN heap_put(g, g.val.r) ELSE g,
                       node, g.val)
\* CodeGenerator.visit_unaryop
visit_unaryop(g, node) == unaryop_operand_visited(gen_visit_expr(g, node.operand), node)

\* the visit functions of expressions: the value is left in val
gen_visit_expr(g, node) ==
    IF g.exc # "none" THEN g
    ELSE CASE node.kind = "Num" -> [g EXCEPT !.val = Lit(node.n)]
           [] node.kind = "Name" -> get_register(g, node)
           [] node.kind = "BinaryOp" -> visit_binop(g, node)
           [] node.kind = "UnaryOp" -> visit_unaryop(g, node)

\* CodeGenerator.visit_assign (an int scalar target)
assign_target_visited(g, node, value) ==
    IF g.exc # "none" THEN g
    ELSE IF allocated_register(node.value)
    THEN heap_put(write(g, [op |-> "set", r |-> g.val.r, v |-> value]), value.r)
    ELSE write(g, [op |-> "set", r |-> g.val.r, v |-> value])
assign_value_visited(g, node) ==
    IF g.exc # "none" THEN g ELSE assign_target_visited(gen_visit_expr(g, node.target), node, g.val)
gen_visit_assign(g, node) == assign_value_visited(gen_visit_expr(g, node.value), node)

RECURSIVE gen_visit(_, _)
RECURSIVE gen_visit_list(_, _, _)

\* `for statement in body: self.visit(statement)`; the statements after a
\* return of the list are marked as following it
gen_visit_list(g, nodes, i) ==
    IF i > Len(nodes) \/ g.exc # "none" THEN g
    ELSE IF nodes[i] = Return THEN gen_visit_list([g EXCEPT !.dead = TRUE], nodes, i + 1)
    ELSE gen_visit_list(gen_visit(g, nodes[i]), nodes, i + 1)
gen_body(g, nodes) == [gen_visit_list(g, nodes, 1) EXCEPT !.dead = g.dead]

\* visit_call: the arguments, right to left; i counts from 0 and n is the
\* number of (arg, param) pairs
RECURSIVE push_arguments(_, _, _, _, _, _)
argument_pushed(g, node, decl, reg, i, n, valuereg) ==
    IF g.exc # "none" THEN g
    ELSE push_arguments(write(g, [op |-> "store", loc |-> SpOff(i + 1), v |-> valuereg,
                                  arg |-> n - i, of |-> n]),
                        node, decl, reg, i + 1, n)
out_argument(g, node, decl, reg, i, n) ==
    IF node.args[n - i].kind # "Name" \/ get_memory_location(g, node.args[n - i]) = None
    THEN gen_raise(g, "KeyError")
    ELSE argument_pushed(write(g, [op |-> "lea", r |-> reg,
                                   loc |-> get_memory_location(g, node.args[n - i])]),
                         node, decl, reg, i, n, Reg(reg))
in_argument(g, node, decl, reg, i, n) == argument_pushed(g, node, decl, reg, i, n, g.val)
push_arguments(g, node, decl, reg, i, n) ==
    IF i >= n \/ g.exc # "none" THEN g
    ELSE IF decl.params[n - i].direction = tokens_OUT THEN out_argument(g, node, decl, reg, i, n)
    ELSE in_argument(gen_visit_expr(g, node.args[n - i]), node, decl, reg, i, n)

PairCount(node, decl) == IF Len(node.args) < Len(decl.params) THEN Len(node.args) ELSE Len(decl.params)

\* visit_call after the loop: `i` is the loop's last value, and is unbound
\* when the loop ran over no pair
call_arguments_pushed(g, n, call_label, return_label) ==
    IF g.exc # "none" THEN g
    ELSE IF n = 0 THEN gen_raise(g, "UnboundLocalError")
    ELSE [write(write(write(write(g,
              [op |-> "store_fp", loc |-> SpOff(n + 1)]),
              [op |-> "store_label", loc |-> SpOff(n + 2), label |-> return_label]),
              [op |-> "goto", label |-> Label(call_label, -1)]),
              [op |-> "label", label |-> return_label])
            EXCEPT !.register_assignements = <<>>]
call_register_taken(g, node, decl, reg, call_label, return_label) ==
    call_arguments_pushed(push_arguments(g, node, decl, reg, 0, PairCount(node, decl)),
                          PairCount(node, decl), call_label, return_label)
call_variables_stored(g, node, call_label, return_label) ==
    IF g.exc # "none" THEN g
    ELSE call_register_taken(heap_get(g), node, get_proc_decl(g, node.func), heap_top(g),
                             call_label, return_label)
call_labelled(g, node, call_label) ==
    call_variables_stored(
        store_variables(label_counted(g, <<"return_from_">> \o call_label), 1, AssignedNames(g)),
        node, call_label, create_call_label(g, <<"return_from_">> \o call_label))
\* CodeGenerator.visit_call
gen_visit_call(g, node) ==
    IF get_proc_decl(g, node.func) = None THEN gen_raise(g, "KeyError")
    ELSE call_labelled(g, node, get_label(g, node.func))

\* CodeGenerator.visit_if
if_orelse_visited(g, endif_label) == write(g, [op |-> "label", label |-> endif_label])
if_body_visited(g, node, endif_label, target_label) ==
    IF node.orelse = <<>> THEN if_orelse_visited(g, endif_label)
    ELSE if_orelse_visited(
             gen_body(write(write(g, [op |-> "goto", label |-> endif_label]),
                            [op |-> "label", label |-> target_label]),
                      node.orelse),
             endif_label)
if_labelled(g, node, test_reg, endif_label, target_label) ==
    if_body_visited(
        gen_body(write(g, [op |-> "ifnot", v |-> test_reg, label |-> target_label]), node.body),
        node, endif_label, target_label)
if_test_visited(g, node) ==
    IF g.exc # "none" THEN g
    ELSE IF node.orelse = <<>>
    THEN if_labelled(label_counted(g, <<"__endif">>), node, g.val,
                     create_call_label(g, <<"__endif">>), create_call_label(g, <<"__endif">>))
    ELSE if_labelled(label_counted(label_counted(g, <<"__endif">>), <<"__else">>), node, g.val,
                     create_call_label(g, <<"__endif">>), create_call_label(g, <<"__else">>))
gen_visit_if(g, node) == if_test_visited(gen_visit_expr(g, node.test), node)

\* CodeGenerator.visit_for
for_test_visited(g, node, end_label) ==
    IF g.exc # "none" THEN g
    ELSE write(gen_body(write(g, [op |-> "ifnot", v |-> g.val, label |-> end_label]), node.body),
               [op |-> "label", label |-> end_label])
for_labelled(g, node, start_label, end_label) ==
    for_test_visited(gen_visit_expr(write(g, [op |-> "label", label |-> start_label]), node.test),
                     node, end_label)
for_assigned(g, node) ==
    IF g.exc # "none" THEN g
    ELSE for_labelled(label_counted(label_counted(g, <<"__for">>), <<"__endfor">>), node,
                      create_call_label(g, <<"__for">>), create_call_label(g, <<"__endfor">>))
gen_visit_for(g, node) == for_assigned(gen_visit_assign(g, node.assignment), node)

\* CodeGenerator.calc_local_var_stack_size from declaration i on; sp_offset
\* is left in val
RECURSIVE calc_local_var_stack_size(_, _, _, _)
VarSize(decl) == IF decl.array_length = None THEN 1 ELSE DigitsToNat(decl.array_length.n)
calc_local_var_stack_size(g, decls, i, sp_offset) ==
    IF g.exc # "none" THEN g
    ELSE IF i > Len(decls) THEN [g EXCEPT !.val = sp_offset]
    ELSE IF decls[i].kind # "VarDecl"
    THEN calc_local_var_stack_size(gen_visit(g, decls[i]), decls, i + 1, sp_offset)
    ELSE IF decls[i].is_global
    THEN calc_local_var_stack_size(
             [g EXCEPT !.global_memory_locations = (decls[i].name.id :> sp_offset) @@ @],
             decls, i + 1, sp_offset + VarSize(decls[i]))
    ELSE calc_local_var_stack_size(
             [g EXCEPT !.fp_offsets[Len(g.fp_offsets)] = (decls[i].name.id :> sp_offset) @@ @],
             decls, i + 1, sp_offset + VarSize(decls[i]))

\* CodeGenerator.enter_scope / leave_scope
gen_enter_scope(g) ==
    [g EXCEPT !.fp_offsets = Append(@, EmptyDict), !.proc_decls = Append(@, EmptyScope)]
gen_leave_scope(g) ==
    IF g.exc # "none" THEN g
    ELSE [g EXCEPT !.fp_offsets = SubSeq(@, 1, Len(@) - 1),
                   !.proc_decls = SubSeq(@, 1, Len(@) - 1),
                   !.register_assignements = <<>>, !.queue = {}, !.size = 0]

\* `for i, param in enumerate(node.params, 2): current_fp_offset[name] = -i`
RECURSIVE param_offsets(_, _, _)
param_offsets(g, params, i) ==
    IF i > Len(params) THEN g
    ELSE param_offsets(
             [g EXCEPT !.fp_offsets[Len(g.fp_offsets)] =
                           (params[i].var_decl.name.id :> 0 - (i + 1)) @@ @],
             params, i + 1)

OutParams(node) ==
    {node.params[i].var_decl.name.id :
        i \in {k \in 1..Len(node.params) : node.params[k].direction = tokens_OUT}}

\* visit_procdecl: the epilogue
procdecl_body_visited(g, node) ==
    gen_leave_scope(
        write(write(write(write(
            store_variables(g, 1, OutParams(node) \cup DOMAIN g.global_memory_locations),
            [op |-> "sp_unwind", n |-> Len(node.params) + 2]),
            [op |-> "load_return", r |-> 0]),
            [op |-> "restore_fp"]),
            [op |-> "goto_register", r |-> 0]))
\* visit_procdecl: the entry label and the prologue
procdecl_sized(g, node, sp_offset) ==
    IF g.exc # "none" THEN g
    ELSE procdecl_body_visited(
             gen_body(write(write(write(g,
                          [op |-> "label", label |-> Label(get_label(g, node.name), -1)]),
                          [op |-> "fp_enter", n |-> Len(node.params) + 2,
                           offsets |-> [j \in 1..Len(node.params) |->
                                           Top(g.fp_offsets)[node.params[j].var_decl.name.id]]]),
                          [op |-> "sp_add", n |-> sp_offset, prologue |-> TRUE]),
                      node.body),
             node)
procdecl_locals_sized(g, node) ==
    IF g.exc # "none" THEN g
    ELSE procdecl_sized(param_offsets(g, node.params, 1), node,
                        g.val + Len(node.params) + 2)
\* CodeGenerator.visit_procdecl
gen_visit_procdecl(g, node) ==
    IF node.name.id \in runtime_functions
    THEN write(write(set_proc_decl(g, node.name, node),
                     [op |-> "label", label |-> Label(node.name.id, -1)]),
               [op |-> "runtime", name |-> node.name.id, r |-> 0])
    ELSE procdecl_locals_sized(
             calc_local_var_stack_size(
                 [set_proc_decl(gen_enter_scope(set_proc_decl(g, node.name, node)),
                                node.name, node)
                     EXCEPT !.current_procedure = node.name, !.dead = FALSE],
                 node.decls, 1, 0),
             node)

\* CodeGenerator.visit_program
program_body_visited(g) ==
    write(write(write(g, [op |-> "return"]), [op |-> "close"]),
          [op |-> "registers", size |-> g.max_size])
program_sized(g, node, sp_offset) ==
    IF g.exc # "none" THEN g
    ELSE program_body_visited(
             gen_body(IF sp_offset > 0
                      THEN write(write(g, [op |-> "label", label |-> Label(node.name.id, -1)]),
                                 [op |-> "sp_add", n |-> sp_offset, prologue |-> FALSE])
                      ELSE write(g, [op |-> "label", label |-> Label(node.name.id, -1)]),
                      node.body))
program_locals_sized(g, node) == program_sized([g EXCEPT !.dead = FALSE], node, g.val)
gen_visit_program(g, node) ==
    program_locals_sized(
        calc_local_var_stack_size(
            write(write(g, [op |-> "PROLOG"]), [op |-> "goto", label |-> Label(node.name.id, -1)]),
            node.decls, 1, 0),
        node)

\* TreeWalker._visit with the generator's visit_functions: anything that is
\* not a Node (the RETURN of a body) is returned as it is
gen_visit(g, node) ==
    IF g.exc # "none" THEN g
    ELSE CASE node.kind = "Program" -> gen_visit_program(g, node)
           [] node.kind = "ProcDecl" -> gen_visit_procdecl(g, node)
           [] node.kind = "Assign" -> gen_visit_assign(g, node)
           [] node.kind = "If" -> gen_visit_if(g, node)
           [] node.kind = "For" -> gen_visit_for(g, node)
           [] node.kind = "Call" -> gen_visit_call(g, node)
           [] OTHER -> g

\* CodeGenerator().walk(ast)
CodeGenerator(ast) == gen_visit(NewGenerator, ast)

(***************************************************************************)
(* The machine of the emitted C: MM, R, SP and FP of PROLOG, all zero at   *)
(* the start, and ip, the line about to execute.  The address of a label   *)
(* (&&L) is the negated index of its line.  An access outside MM or R is   *)
(* undefined behaviour of the C: the machine stops in err = "undefined".   *)
(* how, slots, saved_fp, return_address and written do not exist in the C: *)
(* how says how ip was reached; slots, saved_fp and return_address record  *)
(* where the last call sequence stored its arguments, and the FP and the   *)
(* label address it stored; written holds the registers assigned since the *)
(* last label at which the generator's register cache is empty.            *)
(***************************************************************************)
MemSize == 12
MaxSteps == 80

LabelIndex(code, label) ==
    IF \E i \in 1..Len(code) : code[i].op = "label" /\ code[i].label = label
    THEN CHOOSE i \in 1..Len(code) : code[i].op = "label" /\ code[i].label = label
    ELSE 0
LabelAddress(code, label) == 0 - LabelIndex(code, label)

NewMachine(size) ==
    [ip |-> 1, MM |-> [a \in 0..(MemSize - 1) |-> 0], R |-> [r \in 0..(size - 1) |-> 0],
     SP |-> 0, FP |-> 0, output |-> <<>>, err |-> "none", how |-> "start", steps |-> 0,
     slots |-> <<>>, saved_fp |-> 0, return_address |-> 0, written |-> {}]

InMM(a) == a \in 0..(MemSize - 1)
\* the labels at which the generator's register_assignements is empty: the
\* label of a procedure or of the program, and the return label of a call
ClearsCache(label) == label.n = -1 \/ label.name[1] = "return_from_"
undefined(m) == [m EXCEPT !.err = "undefined"]
\* the next line in sequence
fall(m) == [m EXCEPT !.ip = @ + 1, !.how = "fall"]
jump(m, code, label) ==
    IF LabelIndex(code, label) = 0 THEN [m EXCEPT !.err = "undefined label"]
    ELSE [m EXCEPT !.ip = LabelIndex(code, label), !.how = "jump"]
\* goto *(void *)R[r]
jump_register(m, code, r) ==
    IF r \notin DOMAIN m.R THEN undefined(m)
    ELSE IF (0 - m.R[r]) \in 1..Len(code) /\ code[0 - m.R[r]].op = "label"
    THEN [m EXCEPT !.ip = 0 - m.R[r], !.how = "return"]
    ELSE undefined(m)

\* the address a location stands for; MemSize (outside MM) when it cannot be formed
address(m, loc) ==
    CASE loc.base = "abs" -> loc.off
      [] loc.base = "fp" -> m.FP + loc.off
      [] loc.base = "sp" -> m.SP + loc.off
      [] loc.base = "ind" -> IF InMM(m.FP + loc.off) THEN m.MM[m.FP + loc.off] ELSE MemSize
operand_defined(m, v) == v.k = "lit" \/ v.r \in DOMAIN m.R
operand(m, v) == IF v.k = "lit" THEN v.v ELSE m.R[v.r]

truth(b) == IF b THEN 1 ELSE 0
c_binop(operator, a, b) ==
    CASE operator = "+" -> a + b
      [] operator = "-" -> a - b
      [] operator = "*" -> a * b
      [] operator = "<" -> truth(a < b)
      [] operator = ">" -> truth(a > b)
      [] operator = "==" -> truth(a = b)
      [] OTHER -> 0

set_register(m, r, value) ==
    IF r \notin DOMAIN m.R THEN undefined(m)
    ELSE fall([m EXCEPT !.R[r] = value, !.written = @ \cup {r}])
set_memory(m, a, value) ==
    IF ~InMM(a) THEN undefined(m) ELSE fall([m EXCEPT !.MM[a] = value])

\* a runtime body: the put functions print MM[SP + 1] through R[0] and go
\* back through MM[SP + 3]; the get functions store what was read (here 0)
runtime_body(m, code, name) ==
    IF 0 \notin DOMAIN m.R \/ ~InMM(m.SP + 3) THEN undefined(m)
    ELSE IF name[1] = "p"
    THEN jump_register([m EXCEPT !.output = Append(@, m.MM[m.SP + 1]),
                                 !.R[0] = m.MM[m.SP + 3]], code, 0)
    ELSE IF ~InMM(m.MM[m.SP + 1]) THEN undefined(m)
    ELSE jump_register([m EXCEPT !.MM[m.MM[m.SP + 1]] = 0, !.R[0] = m.MM[m.SP + 3]], code, 0)

\* one line of the emitted C
execute(m, code) ==
    LET instr == code[m.ip] IN
    CASE instr.op \in {"PROLOG", "validateBooleanOp"} -> fall(m)
      [] instr.op = "label" ->
            fall(IF ClearsCache(instr.label) THEN [m EXCEPT !.written = {}] ELSE m)
      [] instr.op = "goto" -> jump(m, code, instr.label)
      [] instr.op = "ifnot" ->
            IF ~operand_defined(m, instr.v) THEN undefined(m)
            ELSE IF operand(m, instr.v) = 0 THEN jump(m, code, instr.label) ELSE fall(m)
      [] instr.op = "sp_add" -> fall([m EXCEPT !.SP = @ + instr.n])
      [] instr.op = "fp_enter" -> fall([m EXCEPT !.FP = m.SP + instr.n])
      [] instr.op = "sp_unwind" -> fall([m EXCEPT !.SP = m.FP - instr.n])
      [] instr.op = "load" ->
            IF ~InMM(address(m, instr.loc)) THEN undefined(m)
            ELSE set_register(m, instr.r, m.MM[address(m, instr.loc)])
      [] instr.op = "lea" -> set_register(m, instr.r, address(m, instr.loc))
      [] instr.op = "set" ->
            IF ~operand_defined(m, instr.v) THEN undefined(m)
            ELSE set_register(m, instr.r, operand(m, instr.v))
      [] instr.op = "binop" ->
            IF ~operand_defined(m, instr.a) \/ ~operand_defined(m, instr.b) THEN undefined(m)
            ELSE set_register(m, instr.r,
                              c_binop(instr.operator, operand(m, instr.a), operand(m, instr.b)))
      [] instr.op = "unop" ->
            IF ~operand_defined(m, instr.a) THEN undefined(m)
            ELSE set_register(m, instr.r,
                              CASE instr.operator = "-" -> 0 - operand(m, instr.a)
                                [] instr.operator = "~" -> 0 - operand(m, instr.a) - 1
                                [] OTHER -> truth(operand(m, instr.a) = 0))
      [] instr.op = "store" ->
            IF ~operand_defined(m, instr.v) THEN undefined(m)
            ELSE IF "arg" \in DOMAIN instr
            THEN set_memory([m EXCEPT !.slots = IF instr.arg < instr.of
                                                THEN <<address(m, instr.loc)>> \o @
                                                ELSE <<address(m, instr.loc)>>],
                            address(m, instr.loc), operand(m, instr.v))
            ELSE set_memory(m, address(m, instr.loc), operand(m, instr.v))
      [] instr.op = "store_fp" ->
            set_memory([m EXCEPT !.saved_fp = m.FP], address(m, instr.loc), m.FP)
      [] instr.op = "store_label" ->
            IF LabelIndex(code, instr.label) = 0 THEN [m EXCEPT !.err = "undefined label"]
            ELSE set_memory([m EXCEPT !.return_address = LabelAddress(code, instr.label)],
                            address(m, instr.loc), LabelAddress(code, instr.label))
      [] instr.op = "load_return" ->
            IF ~InMM(m.FP) THEN undefined(m) ELSE set_register(m, instr.r, m.MM[m.FP])
      [] instr.op = "restore_fp" ->
            IF ~InMM(m.FP - 1) THEN undefined(m) ELSE fall([m EXCEPT !.FP = m.MM[m.FP - 1]])
      [] instr.op = "goto_register" -> jump_register(m, code, instr.r)
      [] instr.op = "runtime" -> runtime_body(m, code, instr.name)
      [] instr.op = "return" -> [m EXCEPT !.err = "exit"]
      [] OTHER -> undefined(m)

(***************************************************************************)
(* Programs for the generator.  Every program declares `int i`, `global    *)
(* int c`, the runtime procedure putInteger (global or not) and            *)
(*   procedure f(int x in)  begin return; c := 1; end                      *)
(*   procedure k(int x in)  begin if (x < 1) then return; c := 2; end if;  *)
(*                                c := 3; end                              *)
(*   global procedure g(int y out)  begin y := 1; end                      *)
(*   procedure h()  begin c := 1; end                                      *)
(* and its body is a list of at most MaxGenStmts of GenStatements.  Three  *)
(* more programs declare one procedure and do nothing.                     *)
(***************************************************************************)
id_k == <<"k">>
id_putInteger == <<"p", "u", "t", "I", "n", "t", "e", "g", "e", "r">>

GenPutInteger(is_global) ==
    ProcDecl(is_global, Name(id_putInteger), <<Param(Scalar(INT, id_v), tokens_IN)>>, <<>>, <<>>)
GenProcF ==
    ProcDecl(FALSE, Name(id_f), <<Param(Scalar(INT, id_x), tokens_IN)>>, <<>>,
             <<Return, Assign(Name(id_c), One)>>)
GenProcK ==
    ProcDecl(FALSE, Name(id_k), <<Param(Scalar(INT, id_x), tokens_IN)>>, <<>>,
             <<If(BinaryOp("<", Name(id_x), One), <<Return, Assign(Name(id_c), Two)>>, <<>>),
               Assign(Name(id_c), Three)>>)
GenProcG ==
    ProcDecl(TRUE, Name(id_g), <<Param(Scalar(INT, id_y), tokens_OUT)>>, <<>>,
             <<Assign(Name(id_y), One)>>)
GenProcH == ProcDecl(FALSE, Name(id_h), <<>>, <<>>, <<Assign(Name(id_c), One)>>)

GenDecls(is_global) ==
    <<Scalar(INT, id_i), VarDecl(TRUE, INT, Name(id_c), None), GenPutInteger(is_global),
      GenProcF, GenProcK, GenProcG, GenProcH>>
GenProgram(is_global, body) == Program(Name(id_p), GenDecls(is_global), body)

PutInteger(arg) == Call(Name(id_putInteger), <<arg>>)
GenLoop ==
    For(Assign(Name(id_i), Zero), BinaryOp("<", Name(id_i), Two),
        <<PutInteger(Name(id_i)), Assign(Name(id_i), BinaryOp("+", Name(id_i), One))>>)
GenStatements ==
    {Assign(Name(id_i), One),
     PutInteger(Name(id_i)),
     PutInteger(Name(id_c)),
     Call(Name(id_f), <<One>>),
     Call(Name(id_k), <<Zero>>),
     Call(Name(id_g), <<Name(id_i)>>),
     Call(Name(id_h), <<>>),
     GenLoop,
     If(BinaryOp("<", Name(id_i), One), <<PutInteger(One)>>, <<PutInteger(Two)>>)}

MaxGenStmts == 2
RECURSIVE GenBodies(_)
GenBodies(n) ==
    IF n = 0 THEN {<<>>}
    ELSE GenBodies(n - 1) \cup {Append(b, s) : b \in {x \in GenBodies(n - 1) : Len(x) = n - 1},
                                               s \in GenStatements}
\* the programs that only declare procedures: putInteger, or a procedure
\* with nothing in it, and an empty body
GenDeclarationsOnly ==
    {Program(Name(id_p), <<decl>>, <<>>) :
        decl \in {GenPutInteger(TRUE), GenPutInteger(FALSE),
                  ProcDecl(FALSE, Name(id_h), <<>>, <<>>, <<>>)}}
GenInputs(n) ==
    {x \in {GenProgram(is_global, body) : is_global \in BOOLEAN, body \in GenBodies(n)}
             \cup GenDeclarationsOnly :
        tree_is_valid(x).valid}

(***************************************************************************)
(* The generator and the machine as a state machine: Generate is           *)
(* CodeGenerator().walk(ast) on the checked tree, Execute is one line of   *)
(* the emitted C.                                                          *)
(***************************************************************************)
GenState(pc, code, size, exc, m) ==
    [pc |-> pc, code |-> code, size |-> size, exc |-> exc, m |-> m]

InitGen ==
    /\ phase = "generate"
    /\ ScanIdle
    /\ input \in GenInputs(MaxGenStmts)
    /\ result = GenState("start", <<>>, 0, "none", NewMachine(0))

Generated(g) ==
    IF g.exc # "none" THEN GenState("raised", <<>>, 0, g.exc, NewMachine(0))
    ELSE GenState("generated", g.out, g.max_size, "none", NewMachine(g.max_size))

Generate ==
    /\ phase = "generate"
    /\ result.pc = "start"
    /\ result' = Generated(CodeGenerator(tree_is_valid(input).node))
    /\ UNCHANGED <<phase, input, scanVars>>

Executed(m) == [m EXCEPT !.steps = @ + 1]

Execute ==
    /\ phase = "generate"
    /\ result.pc \in {"generated", "running"}
    /\ result.m.err = "none"
    /\ result.m.steps < MaxSteps
    /\ result' = [result EXCEPT !.pc = "running", !.m = Executed(execute(result.m, result.code))]
    /\ UNCHANGED <<phase, input, scanVars>>

NextGen == Generate \/ Execute
SpecGen == InitGen /\ [][NextGen]_vars

\* the machine has just executed the prologue of a procedure
AfterPrologue ==
    /\ phase = "generate"
    /\ result.pc = "running"
    /\ result.m.err = "none"
    /\ result.m.how = "fall"
    /\ result.m.ip > 2
    /\ result.code[result.m.ip - 1].op = "sp_add"
    /\ result.code[result.m.ip - 1].prologue
\* the offsets from FP the procedure entered uses for its parameters
EnteredOffsets == result.code[result.m.ip - 2].offsets
FrameAgreed ==
    /\ InMM(result.m.FP)
    /\ result.m.MM[result.m.FP] = result.m.return_address
    /\ result.m.MM[result.m.FP - 1] = result.m.saved_fp
    /\ Len(result.m.slots) = Len(EnteredOffsets)
    /\ \A j \in 1..Len(EnteredOffsets) : result.m.FP + EnteredOffsets[j] = result.m.slots[j]

\* C16: every call, with N >= 0 arguments to a procedure of N parameters, is
\* generated, and once the callee's prologue has run MM[FP] holds the address
\* of the call's return label, MM[FP-1] the caller's FP, and the slot the
\* callee uses for its j-th parameter is the one the caller stored the j-th
\* argument in
C16_CallerAndCalleeAgreeOnFrame ==
    phase = "generate" =>
        /\ result.pc # "raised"
        /\ AfterPrologue => FrameAgreed

\* the machine stands at the L_end of a For statement
AtEndFor ==
    /\ phase = "generate"
    /\ result.pc = "running"
    /\ result.m.err = "none"
    /\ result.code[result.m.ip].op = "label"
    /\ result.code[result.m.ip].label.name = <<"__endfor">>

\* C17: the code of a For statement loops: control leaves to L_end only from
\* the test at L_start, when the test is zero; after the body it goes back
\* to L_start, never on into L_end
C17_ForLoopsUntilTestIsZero == AtEndFor => result.m.how = "jump"

\* the machine stands at a line of a statement that follows a return in the
\* statement list of that return
AfterReturn ==
    /\ phase = "generate"
    /\ result.pc = "running"
    /\ result.m.err = "none"
    /\ result.code[result.m.ip].dead

\* C18: a return in a procedure body, at top level or inside an If or a For,
\* is a jump to the procedure's epilogue: control never reaches a statement
\* that follows the return
C18_ReturnJumpsToEpilogue == ~AfterReturn

\* the labels the emitted C refers to, by `goto L` or by `&&L`, and the
\* labels it defines
ReferencedLabels(code) ==
    {code[i].label : i \in {k \in 1..Len(code) : code[k].op \in {"goto", "ifnot", "store_label"}}}
DefinedLabels(code) == {code[i].label : i \in {k \in 1..Len(code) : code[k].op = "label"}}

\* C19: every label the emitted C refers to is defined in it: the program's
\* label, the labels of If and For, the return labels and the entry labels
\* of the procedures called, the global and the runtime ones included
C19_EveryReferencedLabelDefined ==
    phase = "generate" /\ result.pc \in {"generated", "running"} =>
        ReferencedLabels(result.code) \subseteq DefinedLabels(result.code)

\* the register indexes that appear in a line of the emitted C
OperandRegisters(instr, fields) ==
    {instr[f].r : f \in {x \in fields \cap DOMAIN instr : instr[x].k = "reg"}}
LineRegisters(instr) ==
    (IF "r" \in DOMAIN instr THEN {instr.r} ELSE {})
        \cup OperandRegisters(instr, {"v", "a", "b"})
CodeRegisters(code) == UNION {LineRegisters(code[i]) : i \in 1..Len(code)}
\* the size of the closing `int R[size];`
DeclaredSize(code) == code[Len(code)].size

\* C20: every index i of an R[i] in the emitted C, the R[0] of the epilogues
\* and of the runtime bodies included, is below the size declared for R
C20_RegistersWithinDeclaredSize ==
    phase = "generate" /\ result.pc \in {"generated", "running"} =>
        \A r \in CodeRegisters(result.code) : r < DeclaredSize(result.code)

(***************************************************************************)
(* Error recovery in a list.  A list of statements is parsed as the body   *)
(* of `for (a := 1; 1) ... end for` by statement(), a list of declarations *)
(* as the declarations of `procedure a() ... begin end procedure` by       *)
(* declaration(), as the tests of the resync points do.  Every element of  *)
(* the list is one of a few well-formed and ill-formed token sequences and *)
(* is followed by a semicolon.                                             *)
(***************************************************************************)
MaxChunks == 3

GoodStatements == {<<"RETURN">>, <<"IDENTIFIER", "ASSIGN", "NUMBER">>}
BadStatements ==
    {<<"IDENTIFIER", "NUMBER">>, <<"IDENTIFIER", "ASSIGN">>, <<"NUMBER", "PLUS">>,
     <<"IDENTIFIER", "ASSIGN", "NUMBER", "NUMBER">>}
GoodDeclarations == {<<"INT", "IDENTIFIER">>}
BadDeclarations == {<<"NUMBER", "NUMBER">>, <<"INT">>, <<"INT", "IDENTIFIER", "IDENTIFIER">>}

\* the node a well-formed element is parsed into
ChunkNode(chunk) ==
    CASE chunk = <<"RETURN">> -> Return
      [] chunk = <<"IDENTIFIER", "ASSIGN", "NUMBER">> -> Assign(Name(<<"a">>), Num(<<"1">>))
      [] chunk = <<"INT", "IDENTIFIER">> -> VarDecl(FALSE, "INT", Name(<<"a">>), None)

RECURSIVE Joined(_)
Joined(chunks) ==
    IF chunks = <<>> THEN <<>> ELSE Head(chunks) \o <<"SEMICOLON">> \o Joined(Tail(chunks))

ResyncTokens(list, chunks) ==
    IF list = "statements"
    THEN Toks(<<"FOR", "OPENPAREN", "IDENTIFIER", "ASSIGN", "NUMBER", "SEMICOLON", "NUMBER",
                "CLOSEPAREN">> \o Joined(chunks) \o <<"END", "FOR", "EOF">>)
    ELSE Toks(<<"PROCEDURE", "IDENTIFIER", "OPENPAREN", "CLOSEPAREN">> \o Joined(chunks)
                  \o <<"BEGIN", "END", "PROCEDURE", "EOF">>)

ResyncInputs(n) ==
    {[list |-> "statements", chunks |-> c] :
        c \in SeqsUpTo(GoodStatements \cup BadStatements, n)}
      \cup {[list |-> "declarations", chunks |-> c] :
               c \in SeqsUpTo(GoodDeclarations \cup BadDeclarations, n)}

InitResync ==
    /\ phase = "resync"
    /\ ScanIdle
    /\ input \in ResyncInputs(MaxChunks)
    /\ result = None

\* what the call left: the exception that escaped it, the error flag, and
\* the list of the node it returned
Recovered(r, list) ==
    IF r.exc # "none"
    THEN [exc |-> r.exc, error_encountered |-> r.error_encountered, parsed |-> <<>>]
    ELSE [exc |-> "none", error_encountered |-> r.error_encountered,
          parsed |-> IF list = "statements" THEN top(r).body ELSE top(r).decls]

\* p.statement() of a For
ParseStatementList ==
    /\ phase = "resync" /\ result = None /\ input.list = "statements"
    /\ result' = Recovered(statement(NewParser(ResyncTokens(input.list, input.chunks))),
                           input.list)
    /\ UNCHANGED <<phase, scanVars, input>>

\* p.declaration() of a procedure
ParseDeclarationList ==
    /\ phase = "resync" /\ result = None /\ input.list = "declarations"
    /\ result' = Recovered(declaration(NewParser(ResyncTokens(input.list, input.chunks))),
                           input.list)
    /\ UNCHANGED <<phase, scanVars, input>>

NextResync == ParseStatementList \/ ParseDeclarationList
SpecResync == InitResync /\ [][NextResync]_vars

IsBad(chunk) == chunk \in BadStatements \cup BadDeclarations
BadCount(chunks) == Cardinality({i \in 1..Len(chunks) : IsBad(chunks[i])})
RECURSIVE GoodNodes(_)
GoodNodes(chunks) ==
    IF chunks = <<>> THEN <<>>
    ELSE IF IsBad(Head(chunks)) THEN GoodNodes(Tail(chunks))
    ELSE <<ChunkNode(Head(chunks))>> \o GoodNodes(Tail(chunks))

\* a list with exactly one ill-formed element has been parsed
OneErrorParsed == phase = "resync" /\ result # None /\ BadCount(input.chunks) = 1

\* C21: when one element of a list has a parse error and a semicolon
\* follows it, the error is recorded, the tokens up to that semicolon are
\* skipped, and the list returned holds the well-formed elements, those
\* after the error included, and not the ill-formed one
C21_ListRecoversAfterError ==
    OneErrorParsed =>
        /\ result.exc = "none"
        /\ result.error_encountered
        /\ result.parsed = GoodNodes(input.chunks)

(***************************************************************************)
(* Assignment statements: `a := V` and `a[E] := V` for a few expressions E *)
(* and V, each parsed by statement().                                      *)
(***************************************************************************)
\* an expression: its token types, and the node expression() gives for it
Sample(types, node) == [types |-> types, node |-> node]
SampleExpressions ==
    {Sample(<<"NUMBER">>, Num(<<"1">>)),
     Sample(<<"IDENTIFIER">>, Name(<<"a">>)),
     Sample(<<"NUMBER", "PLUS", "IDENTIFIER">>, BinaryOp("PLUS", Num(<<"1">>), Name(<<"a">>))),
     Sample(<<"IDENTIFIER", "MULTIPLY", "NUMBER">>,
            BinaryOp("MULTIPLY", Name(<<"a">>), Num(<<"1">>))),
     Sample(<<"NUMBER", "LT", "NUMBER">>, BinaryOp("LT", Num(<<"1">>), Num(<<"1">>))),
     Sample(<<"MINUS", "IDENTIFIER">>, UnaryOp("MINUS", Name(<<"a">>))),
     Sample(<<"OPENPAREN", "NUMBER", "CLOSEPAREN">>, Num(<<"1">>)),
     Sample(<<"IDENTIFIER", "OPENBRACKET", "NUMBER", "CLOSEBRACKET">>,
            Subscript(Name(<<"a">>), Num(<<"1">>)))}

\* index is None for the target `a`
AssignInputs(exprs) ==
    {[index |-> e, value |-> v] : e \in exprs \cup {None}, v \in exprs}

AssignTokens(x) ==
    Toks(<<"IDENTIFIER">>
         \o (IF x.index = None THEN <<>>
             ELSE <<"OPENBRACKET">> \o x.index.types \o <<"CLOSEBRACKET">>)
         \o <<"ASSIGN">> \o x.value.types \o <<"SEMICOLON", "EOF">>)

InitAssign ==
    /\ phase = "assign"
    /\ ScanIdle
    /\ input \in AssignInputs(SampleExpressions)
    /\ result = None

statement_parsed(r) ==
    IF r.exc # "none" THEN [outcome |-> r.exc, node |-> None]
    ELSE [outcome |-> "node", node |-> top(r)]

\* p.statement()
Statement ==
    /\ phase = "assign" /\ result = None
    /\ result' = statement_parsed(statement(NewParser(AssignTokens(input))))
    /\ UNCHANGED <<phase, scanVars, input>>

NextAssign == Statement
SpecAssign == InitAssign /\ [][NextAssign]_vars

\* the statement `a[E] := V` has been parsed
ElementAssigned == phase = "assign" /\ result # None /\ input.index # None

\* C22: statement() parses `a[E] := V` into Assign(Subscript(Name(a), E), V)
\* and raises no parse error
C22_ArrayElementAssigned ==
    ElementAssigned =>
        /\ result.outcome = "node"
        /\ result.node = Assign(Subscript(Name(<<"a">>), input.index.node), input.value.node)

(***************************************************************************)
(* Scanning one lexeme: the line is a punctuation mark, an operator or a   *)
(* keyword alone, scanned by either scanner with the steps of NextScan.    *)
(***************************************************************************)
Punctuation ==
    {<<";">>, <<",">>, <<"+">>, <<"-">>, <<"*">>, <<"/">>, <<"(">>, <<")">>, <<"[">>,
     <<"]">>, <<"{">>, <<"}">>, <<":">>, <<"<">>, <<"<", "=">>, <<">">>, <<">", "=">>,
     <<"!", "=">>, <<"=", "=">>, <<":", "=">>}
Keywords ==
    {<<"s", "t", "r", "i", "n", "g">>, <<"i", "n", "t">>, <<"b", "o", "o", "l">>,
     <<"f", "l", "o", "a", "t">>, <<"g", "l", "o", "b", "a", "l">>, <<"i", "n">>,
     <<"o", "u", "t">>, <<"i", "f">>, <<"t", "h", "e", "n">>, <<"e", "l", "s", "e">>,
     <<"f", "o", "r">>, <<"a", "n", "d">>, <<"o", "r">>, <<"n", "o", "t">>,
     <<"p", "r", "o", "g", "r", "a", "m">>,
     <<"p", "r", "o", "c", "e", "d", "u", "r", "e">>, <<"b", "e", "g", "i", "n">>,
     <<"r", "e", "t", "u", "r", "n">>, <<"e", "n", "d">>, <<"t", "r", "u", "e">>,
     <<"f", "a", "l", "s", "e">>, <<"i", "s">>}
ClosedLexemes == Punctuation \cup Keywords

InitLexeme ==
    /\ phase = "scan"
    /\ impl \in {"ececompiler", "src"}
    /\ line \in ClosedLexemes
    /\ pos = 0
    /\ out = <<>>
    /\ status = "scanning"
    /\ input = <<>>
    /\ result = <<>>

SpecLexeme == InitLexeme /\ [][NextScan]_vars

\* the line as a string
Whole(l) == Slice(l, 0, Len(l))
\* the kind the scanner's own token_map declares for a lexeme, if any
Declares(i, lexeme) ==
    IF i = "src" THEN lexeme \in DOMAIN src_token_map ELSE lexeme \in DOMAIN token_map
DeclaredKind(i, lexeme) == IF i = "src" THEN src_token_map[lexeme] ELSE token_map[lexeme]

\* the scan of a line that is one lexeme of the closed set has ended
LexemeScanned == phase = "scan" /\ line \in ClosedLexemes /\ status # "scanning"

\* C23: the line that is one lexeme L of the closed set, alone, is scanned
\* into exactly one token, of the kind declared for L, with lexeme L, start
\* 0 and end len(L) - 1
C23_LexemeAloneIsOneToken ==
    LexemeScanned =>
        /\ status = "done"
        /\ Len(out) = 1
        /\ out[1].token = Whole(line)
        /\ out[1].start = 0
        /\ out[1].end = Len(line) - 1
        /\ Declares(impl, Whole(line))
        /\ out[1].type = DeclaredKind(impl, Whole(line))

\* optimize_tree(ast, 2) has returned from inside its loop before the last
\* round
StoppedEarly ==
    /\ phase = "optimize" /\ input.level = 2
    /\ result.pc = "done"
    /\ result.i + 1 < LoopRounds
\* what the round just run did: the propagator replaced a node (its flag),
\* the eliminator returned a tree other than the one it was given
PropagatorModified == result.propagator_modified
EliminatorModified == result.ast # result.before

\* C24: at level 2 the pair of walks is repeated, and the loop is left
\* before its last round only when neither walk of the round just run
\* modified the tree: if one of them did, another round is run
C24_AnotherRoundWhileModified ==
    StoppedEarly => ~PropagatorModified /\ ~EliminatorModified

(***************************************************************************)
(* The modified_tree flag of the three mutating passes: each pass is       *)
(* walked once over a Program, and the flag it ends with is kept next to   *)
(* the tree before and after the walk.                                     *)
(***************************************************************************)
Passes == {"ConstantFolder", "ConstantPropagator", "DeadCodeEliminator"}

\* statements with an operator whose operands are literals
FlagFolds ==
    {Assign(Name(id_b), BinaryOp("+", One, Two)),
     Assign(Name(id_b), BinaryOp("+", BinaryOp("+", One, Two), Name(id_a))),
     Put(BinaryOp("<", One, Two))}

\* global procedure get(int v out) begin end procedure;
id_get == <<"g", "e", "t">>
ProcGet == ProcDecl(TRUE, Name(id_get), <<Param(Scalar(INT, id_v), tokens_OUT)>>, <<>>, <<>>)
Get(arg) == Call(Name(id_get), <<arg>>)
\* global procedure g() begin c := 2; end procedure;
PropProcG == ProcDecl(TRUE, Name(id_g), <<>>, <<>>, <<Assign(Name(id_c), Two)>>)

\* int a; int b; global int c; and the procedures put, get and g
PropDecls ==
    <<Scalar(INT, id_a), Scalar(INT, id_b), VarDecl(TRUE, INT, Name(id_c), None),
      ProcPut, ProcGet, PropProcG>>
PropProgram(body) == Program(Name(id_p), PropDecls, body)

\* statements that read id: as an operand, in a test, as an argument
ReadsOfId(id) ==
    {Assign(Name(id_b), BinaryOp("+", Name(id), One)),
     If(BinaryOp("==", Name(id), One), <<Put(One)>>, <<Put(Zero)>>),
     Put(Name(id))}

\* get(b); a := 1; a := <value>; <a read of a>: the second value is an
\* expression of the unknown b, or a literal, or folds to one
SecondValues ==
    {Name(id_b), BinaryOp("+", Name(id_b), One), BinaryOp("+", Name(id_a), Name(id_b)),
     Two, BinaryOp("+", One, One)}
InvalidationBodies ==
    {<<Get(Name(id_b)), Assign(Name(id_a), One), Assign(Name(id_a), e), s>> :
        e \in SecondValues, s \in ReadsOfId(id_a)}

\* a := 0; for (x := 0; y < 2) <body> end for;
LoopedBodies ==
    {<<Assign(Name(id_a), BinaryOp("+", Name(id_a), One))>>,
     <<Assign(Name(id_b), BinaryOp("+", Name(id_a), One)), Assign(Name(id_a), Name(id_b))>>,
     <<Assign(Name(id_c), BinaryOp("+", Name(id_c), One))>>,
     <<Put(Name(id_a))>>}
LoopBodies ==
    {<<Assign(Name(id_a), Zero),
       For(Assign(Name(x), Zero), BinaryOp("<", Name(y), Two), b)>> :
        x \in {id_a, id_c}, y \in {id_a, id_c}, b \in LoopedBodies}

\* c := 1; g(); <a read of c>, and the same with put(1) for the call
CallBodies ==
    {<<Assign(Name(id_c), One), call, s>> :
        call \in {Call(Name(id_g), <<>>), Put(One)}, s \in ReadsOfId(id_c)}

PropTrees ==
    {t \in {PropProgram(b) : b \in InvalidationBodies \cup LoopBodies \cup CallBodies} :
        tree_is_valid(t).valid}

\* global procedure set(int v out) begin v := 1; end procedure;
id_set == <<"s", "e", "t">>
ProcSet ==
    ProcDecl(TRUE, Name(id_set), <<Param(Scalar(INT, id_v), tokens_OUT)>>, <<>>,
             <<Assign(Name(id_v), One)>>)
DceProgram(body) == Program(Name(id_p), PropDecls \o <<ProcSet>>, body)

\* bodies in which an assignment is followed by a use of its target: in a
\* later statement, after an If that reassigns it in one branch or in both,
\* in the next iteration of a For, and in the caller of a procedure
DceBodies ==
    {<<Assign(Name(id_a), One), Put(Name(id_a))>>,
     <<Assign(Name(id_a), One), Assign(Name(id_b), BinaryOp("+", Name(id_a), One)),
       Put(Name(id_b))>>,
     <<Call(Name(id_set), <<Name(id_a)>>), Put(Name(id_a))>>,
     <<Call(Name(id_g), <<>>), Put(Name(id_c))>>,
     <<Call(Name(id_g), <<>>)>>}
        \cup {<<Get(Name(id_c)), Assign(Name(id_a), One),
                If(BinaryOp("==", Name(id_c), One), <<Assign(Name(id_a), Two)>>, orelse),
                Put(Name(id_a))>> :
                 orelse \in {<<>>, <<Assign(Name(id_a), Three)>>, <<Put(One)>>}}
        \cup {<<Assign(Name(id_a), Zero),
                For(Assign(Name(id_b), Zero), BinaryOp("<", Name(x), Two), b)>> :
                 x \in {id_a, id_b},
                 b \in {<<Put(Name(id_a)), Assign(Name(id_a), Two)>>,
                        <<Assign(Name(id_a), BinaryOp("+", Name(id_a), One))>>,
                        <<Assign(Name(id_b), BinaryOp("+", Name(id_b), One))>>,
                        <<Assign(Name(id_a), Two), Put(Name(id_a))>>}}

DceTrees == {t \in {DceProgram(b) : b \in DceBodies} : tree_is_valid(t).valid}

FlagTrees(n, k) ==
    {t \in OptTrees(n, k) : tree_is_valid(t).valid}
        \cup {OptProgram(<<s, Put(Name(id_b))>>) : s \in FlagFolds}
        \cup PropTrees
        \cup DceTrees

FlagInputs(n, k) == {[ast |-> t, pass |-> p] : t \in FlagTrees(n, k), p \in Passes}

FlagState(pc, ast, modified_tree, exc) ==
    [pc |-> pc, ast |-> ast, modified_tree |-> modified_tree, exc |-> exc]

InitFlag ==
    /\ phase = "flag"
    /\ ScanIdle
    /\ input \in FlagInputs(MaxStmts, MaxNest)
    /\ result = FlagState("start", input.ast, FALSE, "none")

Walked(ast, modified_tree, exc) ==
    FlagState(IF exc = "none" THEN "walked" ELSE "raised", ast, modified_tree, exc)

FolderFlagged(r) == Walked(r.node, r.modified, r.exc)
PropagatorFlagged(r) == Walked(r.node, r.m.modified_tree, r.exc)
EliminatorFlagged(r) ==
    Walked(IF r.exc = "none" THEN r.value ELSE input.ast, r.d.modified_tree, r.exc)

\* folder = ConstantFolder(); folder.walk(ast)
WalkFolder ==
    /\ phase = "flag" /\ result.pc = "start" /\ input.pass = "ConstantFolder"
    /\ result' = FolderFlagged(ConstantFolder(input.ast))
    /\ UNCHANGED <<phase, scanVars, input>>

\* propagator = ConstantPropagator(); propagator.walk(ast)
WalkPropagator ==
    /\ phase = "flag" /\ result.pc = "start" /\ input.pass = "ConstantPropagator"
    /\ result' = PropagatorFlagged(ConstantPropagator(input.ast))
    /\ UNCHANGED <<phase, scanVars, input>>

\* eliminator = DeadCodeEliminator(); eliminator.walk(ast)
WalkEliminator ==
    /\ phase = "flag" /\ result.pc = "start" /\ input.pass = "DeadCodeEliminator"
    /\ result' = EliminatorFlagged(DeadCodeEliminator(input.ast))
    /\ UNCHANGED <<phase, scanVars, input>>

NextFlag == WalkFolder \/ WalkPropagator \/ WalkEliminator

SpecFlag == InitFlag /\ [][NextFlag]_vars

PassWalked == phase = "flag" /\ result.pc = "walked"

\* C25: after walk(ast) on a Program, the modified_tree flag of the pass is
\* true if and only if the tree after the walk differs from the tree before
C25_FlagTellsWhetherTreeChanged ==
    PassWalked => (result.modified_tree <=> result.ast # input.ast)

PropagatorPassed == PassWalked /\ input.pass = "ConstantPropagator"

\* body[i] is 'id := <literal>', body[j] a later top-level assignment to id
\* whose value is still not a literal after the walk, and nothing between j
\* and k assigns id
Invalidated(before, after, i, j, k, id) ==
    /\ i < j /\ j < k
    /\ before[i].kind = "Assign" /\ before[i].target = Name(id) /\ is_literal(before[i].value)
    /\ before[j].kind = "Assign" /\ before[j].target = Name(id) /\ ~is_literal(after[j].value)
    /\ \A n \in (j + 1)..(k - 1) : ~AssignsTo(before[n], id, input.ast.decls)

\* C26: after 'a := <literal>' and then, at the top level of the body, an
\* assignment to a whose value does not fold to a literal, a later statement
\* that reads a still reads it after the propagator's walk
C26_NonConstantAssignInvalidates ==
    PropagatorPassed =>
        \A i, j, k \in 1..Len(input.ast.body) : \A id \in {id_a, id_b, id_c} :
            (/\ Invalidated(input.ast.body, result.ast.body, i, j, k, id)
             /\ id \in ReadsOf(input.ast.body[k]))
                => id \in ReadsOf(result.ast.body[k])

\* the variables assigned by the statements of a body, nested ones included
AssignedIn(body) ==
    {TargetId(s.target) : s \in {x \in StmtsOf(body) : x.kind = "Assign"}}

\* the reads of id in the test and in the statements of the body of a For
LoopReads(loop, id) ==
    (IF id \in NamesIn(loop.test) THEN {0} ELSE {})
        \cup {n \in 1..Len(loop.body) : id \in ReadsOf(loop.body[n])}

\* the global variables assigned by the body of the procedure a Call names
GlobalVariables(prog) ==
    {prog.decls[n].name.id :
        n \in {m \in 1..Len(prog.decls) : prog.decls[m].kind = "VarDecl" /\ prog.decls[m].is_global}}
CalleeAssigns(prog, call) ==
    UNION {AssignedIn(prog.decls[n].body) \cap GlobalVariables(prog) :
              n \in {m \in 1..Len(prog.decls) :
                        prog.decls[m].kind = "ProcDecl" /\ prog.decls[m].name = call.func}}

\* a variable recorded as a literal before a For whose body
\* assigns it is still read, after the propagator's walk, wherever the test
\* and the body of the For read it
LoopReadsKept ==
    PropagatorPassed =>
        \A i, j \in 1..Len(input.ast.body) : \A id \in {id_a, id_b, id_c} :
            (/\ ReachesRead(input.ast.body, i, j, id, input.ast.decls)
             /\ input.ast.body[j].kind = "For"
             /\ id \in AssignedIn(input.ast.body[j].body))
                => LoopReads(input.ast.body[j], id) \subseteq LoopReads(result.ast.body[j], id)

\* a global variable recorded as a literal before a Call of a
\* procedure that assigns it is still read, after the walk, by the statement
\* after the Call
ReadsAfterCallKept ==
    PropagatorPassed =>
        \A i, j \in 1..Len(input.ast.body) : \A id \in {id_a, id_b, id_c} :
            (/\ ReachesRead(input.ast.body, i, j, id, input.ast.decls)
             /\ input.ast.body[j].kind = "Call"
             /\ id \in CalleeAssigns(input.ast, input.ast.body[j])
             /\ j < Len(input.ast.body)
             /\ id \in ReadsOf(input.ast.body[j + 1]))
                => id \in ReadsOf(result.ast.body[j + 1])

\* C30: the propagator folds no read of v in the test or the body of a For
\* with a literal recorded before the loop when the body assigns v, and no
\* read of a global after a Call with a literal recorded before the Call when
\* the called procedure assigns that global
C30_NoStaleLiteralAcrossLoopOrCall ==
    LoopReadsKept /\ ReadsAfterCallKept

EliminatorPassed == PassWalked /\ input.pass = "DeadCodeEliminator"

\* the program-level declaration of the procedure a Call names
Callee(prog, call) ==
    prog.decls[CHOOSE n \in 1..Len(prog.decls) :
                   prog.decls[n].kind = "ProcDecl" /\ prog.decls[n].name = call.func]

\* statement s assigns id whichever path is taken through it
RECURSIVE MustAssign(_, _)
MustAssign(s, id) ==
    CASE s.kind = "Assign" -> s.target = Name(id)
      [] s.kind = "If" ->
            /\ \E n \in 1..Len(s.body) : MustAssign(s.body[n], id)
            /\ \E n \in 1..Len(s.orelse) : MustAssign(s.orelse[n], id)
      [] s.kind = "For" -> MustAssign(s.assignment, id)
      [] s.kind = "Call" -> \E n \in 1..Len(s.args) : s.args[n] = Name(id)
      [] OTHER -> FALSE

\* statement s reads the value id had before s: in the value of an
\* assignment, in an argument to an in parameter, in the test of an If, or
\* in the test of a For whose own assignment is to another variable
Uses(prog, s, id) ==
    CASE s.kind = "Assign" -> id \in ReadsOf(s)
      [] s.kind = "Call" ->
            \E n \in 1..Len(s.args) :
                /\ id \in NamesIn(s.args[n])
                /\ Callee(prog, s).params[n].direction = tokens_IN
      [] s.kind = "If" -> id \in NamesIn(s.test)
      [] s.kind = "For" ->
            \/ id \in NamesIn(s.assignment.value)
            \/ id \in NamesIn(s.test) /\ s.assignment.target # Name(id)
      [] OTHER -> FALSE

\* some statement of body after position i uses id, and no statement between
\* assigns it on every path
UsedAfter(prog, body, i, id) ==
    \E k \in (i + 1)..Len(body) :
        /\ Uses(prog, body[k], id)
        /\ \A n \in (i + 1)..(k - 1) : ~MustAssign(body[n], id)

IsAssignTo(s, id) == s.kind = "Assign" /\ s.target = Name(id)

\* an assignment of the program body whose value a later statement uses is
\* still in the body
KeptForLaterStatement ==
    \A i \in 1..Len(input.ast.body) : \A id \in {id_a, id_b, id_c} :
        (/\ IsAssignTo(input.ast.body[i], id)
         /\ UsedAfter(input.ast, input.ast.body, i, id))
            => input.ast.body[i] \in StmtsOf(result.ast.body)

\* the last assignment to id in the body of a For, whose value the test or
\* another statement of the body uses in the next iteration, is still in the
\* tree
UsedNextIteration(prog, loop, m, id) ==
    /\ loop.assignment.target # Name(id)
    /\ \A n \in (m + 1)..Len(loop.body) : ~MustAssign(loop.body[n], id)
    /\ \/ id \in NamesIn(loop.test)
       \/ \E k \in 1..Len(loop.body) :
              /\ k # m
              /\ Uses(prog, loop.body[k], id)
              /\ \A n \in 1..(k - 1) : ~MustAssign(loop.body[n], id)
KeptForNextIteration ==
    \A j \in 1..Len(input.ast.body) : \A id \in {id_a, id_b, id_c} :
        input.ast.body[j].kind = "For" =>
            \A m \in 1..Len(input.ast.body[j].body) :
                (/\ IsAssignTo(input.ast.body[j].body[m], id)
                 /\ UsedNextIteration(input.ast, input.ast.body[j], m, id))
                    => input.ast.body[j].body[m] \in StmtsOf(result.ast.body)

\* what the caller sees of id once the procedure has returned: the global
\* variable id itself, or the argument passed to the out parameter id
SeenAs(prog, call, id) ==
    (IF id \in GlobalVariables(prog) THEN {id} ELSE {})
        \cup {call.args[n].id :
                n \in {x \in 1..Len(call.args) :
                          /\ x <= Len(Callee(prog, call).params)
                          /\ Callee(prog, call).params[x].direction = tokens_OUT
                          /\ Callee(prog, call).params[x].var_decl.name = Name(id)
                          /\ call.args[x].kind = "Name"}}

\* the statement is still in the body of the procedure of that name
KeptInProcedure(name, stmt) ==
    \E n \in 1..Len(result.ast.decls) :
        /\ result.ast.decls[n].kind = "ProcDecl"
        /\ result.ast.decls[n].name = name
        /\ stmt \in StmtsOf(result.ast.decls[n].body)

\* the last assignment a called procedure makes to a global variable or to
\* an out parameter, which the caller uses after the call, is still in the
\* procedure
KeptForCaller ==
    \A j \in 1..Len(input.ast.body) : \A id \in {id_a, id_b, id_c, id_v} :
        input.ast.body[j].kind = "Call" =>
            \A m \in 1..Len(Callee(input.ast, input.ast.body[j]).body) :
                (/\ IsAssignTo(Callee(input.ast, input.ast.body[j]).body[m], id)
                 /\ \A n \in (m + 1)..Len(Callee(input.ast, input.ast.body[j]).body) :
                        ~MustAssign(Callee(input.ast, input.ast.body[j]).body[n], id)
                 /\ \E y \in SeenAs(input.ast, input.ast.body[j], id) :
                        UsedAfter(input.ast, input.ast.body, j, y))
                    => KeptInProcedure(input.ast.body[j].func,
                                       Callee(input.ast, input.ast.body[j]).body[m])

\* C29: the eliminator keeps every assignment whose value can be observed:
\* by a later statement (also past an If that reassigns the variable in one
\* branch only), by the next iteration of the enclosing For, or by the caller
\* of the procedure that assigns an out parameter or a global variable
C29_ObservedAssignmentsKept ==
    EliminatorPassed => KeptForLaterStatement /\ KeptForNextIteration /\ KeptForCaller

(***************************************************************************)
(* Frames and cached registers.  The programs declare `int i`, `global int *)
(* c`, the runtime procedure putInteger, global g(int y out) and           *)
(*   procedure l(int x in) int y; begin y := x; g(c); end                  *)
(*   procedure m(int x in) int y; begin y := x; c := y; end                *)
(* l keeps its local across a call, m does not.  The bodies call l or m,   *)
(* or give i a value, pass an If or a For whose body reads i, and print.   *)
(***************************************************************************)
id_l == <<"l">>
id_m == <<"m">>
FrameProcL ==
    ProcDecl(FALSE, Name(id_l), <<Param(Scalar(INT, id_x), tokens_IN)>>, <<Scalar(INT, id_y)>>,
             <<Assign(Name(id_y), Name(id_x)), Call(Name(id_g), <<Name(id_c)>>)>>)
FrameProcM ==
    ProcDecl(FALSE, Name(id_m), <<Param(Scalar(INT, id_x), tokens_IN)>>, <<Scalar(INT, id_y)>>,
             <<Assign(Name(id_y), Name(id_x)), Assign(Name(id_c), Name(id_y))>>)
FrameDecls ==
    <<Scalar(INT, id_i), VarDecl(TRUE, INT, Name(id_c), None), GenPutInteger(FALSE),
      GenProcG, FrameProcL, FrameProcM>>
FrameProgram(body) == Program(Name(id_p), FrameDecls, body)

\* c := i; under a test on c or in a loop on c
CopiesI == <<Assign(Name(id_c), Name(id_i))>>
Guarded ==
    {If(BinaryOp("==", Name(id_c), One), CopiesI, <<>>),
     If(BinaryOp("==", Name(id_c), Zero), CopiesI, <<>>),
     If(BinaryOp("==", Name(id_c), One), <<PutInteger(One)>>, CopiesI),
     For(Assign(Name(id_c), Zero), BinaryOp(">", Name(id_c), Zero), CopiesI),
     For(Assign(Name(id_c), One), BinaryOp(">", Name(id_c), Zero), CopiesI)}
FrameBodies ==
    {<<Call(Name(f), <<One>>)>> \o rest :
        f \in {id_l, id_m}, rest \in {<<>>, <<PutInteger(Name(id_c))>>}}
        \cup {<<first, s, PutInteger(Name(v))>> :
                first \in {Call(Name(id_g), <<Name(id_i)>>), Assign(Name(id_i), Two)},
                s \in Guarded, v \in {id_i, id_c}}
FrameInputs == {x \in {FrameProgram(b) : b \in FrameBodies} : tree_is_valid(x).valid}

InitFrame ==
    /\ phase = "generate"
    /\ ScanIdle
    /\ input \in FrameInputs
    /\ result = GenState("start", <<>>, 0, "none", NewMachine(0))

SpecFrame == InitFrame /\ [][NextGen]_vars

\* the machine is about to execute a line
AboutToExecute ==
    /\ phase = "generate"
    /\ result.pc = "running"
    /\ result.m.err = "none"
    /\ result.m.ip \in 1..Len(result.code)
NextLine == result.code[result.m.ip]
\* FP is 0 in the program body and SP + N + 2 in a procedure
InProcedure == result.m.FP > 0
\* the line stores a register in the slot the generator gave a local
\* variable, MM[FP + k]
StoresLocal ==
    /\ NextLine.op = "store"
    /\ NextLine.loc.base = "fp"
    /\ NextLine.loc.off >= 0

\* the line is the `goto *(void *)R[0];` of an epilogue
AtEpilogueJump == NextLine.op = "goto_register"
ReturnsToCall ==
    /\ NextLine.r \in DOMAIN result.m.R
    /\ (0 - result.m.R[NextLine.r]) \in 1..Len(result.code)
    /\ result.code[0 - result.m.R[NextLine.r]].op = "label"

\* C27: in a procedure the slot of a local variable lies above MM[FP], the
\* slot of the return address (the caller's FP and the parameters lie below
\* it), so that storing a local never overwrites them, and the epilogue jumps
\* to the address of a label
C27_FrameSlotsDisjoint ==
    AboutToExecute =>
        /\ InProcedure /\ StoresLocal => result.m.FP + NextLine.loc.off > result.m.FP
        /\ AtEpilogueJump => ReturnsToCall

\* the registers the line reads
RegistersRead(instr) ==
    OperandRegisters(instr, {"v", "a", "b"})
        \cup (IF instr.op = "goto_register" THEN {instr.r} ELSE {})

\* C28: every register a line reads was loaded or assigned earlier on the
\* path executed, since the last point at which the generator's cache of
\* registers was empty; a load written inside an If branch or a For body is
\* not relied on after the branch or body was skipped
C28_CachedRegistersValidOnEveryPath ==
    AboutToExecute => RegistersRead(NextLine) \subseteq result.m.written

====
